---- MODULE Spec2Model ----
(***************************************************************************)
(* A model of the analysis-extraction-and-retrieval pipeline of the        *)
(* architectural document analyzer (src/server/src/app.ts): the upload     *)
(* and chat request handlers, the in-memory analysis cache, the Ollama     *)
(* gateway as an environment, the text extractors and the fallback         *)
(* generator.                                                              *)
(*                                                                         *)
(* JavaScript strings are modelled as sequences of one-character strings,  *)
(* so that toLowerCase, includes, split, trim, join and the template       *)
(* literals are computed the way the code computes them.  The fixed        *)
(* messages of the HTTP responses (error, note, aiProvider), which the     *)
(* program only ever writes, are kept as TLA+ strings.                     *)
(***************************************************************************)
EXTENDS Integers, Sequences, FiniteSets, TLC

(***************************************************************************)
(* Bounds of the model.                                                    *)
(***************************************************************************)
\* number of HTTP requests (uploads and chats) the server receives
MaxReq == 2

(***************************************************************************)
(* JavaScript string primitives.                                           *)
(***************************************************************************)
UpperCaseLetters ==
  <<"A","B","C","D","E","F","G","H","I","J","K","L","M",
    "N","O","P","Q","R","S","T","U","V","W","X","Y","Z">>

LowerCaseLetters ==
  <<"a","b","c","d","e","f","g","h","i","j","k","l","m",
    "n","o","p","q","r","s","t","u","v","w","x","y","z">>

Digits == <<"0","1","2","3","4","5","6","7","8","9">>

\* the characters the regular-expression class \s and String.prototype.trim
\* treat as white space (those that occur in the modelled texts)
WhiteSpace == {" ", "\n", "\t", "\r"}

Min(S) == CHOOSE x \in S : \A y \in S : x <= y

Max(S) == CHOOSE x \in S : \A y \in S : x >= y

IsUpper(c) == \E i \in DOMAIN UpperCaseLetters : UpperCaseLetters[i] = c

IsLower(c) == \E i \in DOMAIN LowerCaseLetters : LowerCaseLetters[i] = c

IsDigit(c) == \E i \in DOMAIN Digits : Digits[i] = c

toLowerChar(c) ==
  IF IsUpper(c)
    THEN LowerCaseLetters[CHOOSE i \in DOMAIN UpperCaseLetters : UpperCaseLetters[i] = c]
    ELSE c

toUpperChar(c) ==
  IF IsLower(c)
    THEN UpperCaseLetters[CHOOSE i \in DOMAIN LowerCaseLetters : LowerCaseLetters[i] = c]
    ELSE c

\* String.prototype.toLowerCase
toLowerCase(s) == [i \in 1..Len(s) |-> toLowerChar(s[i])]

\* sub occurs in s at the (1-based) position p
MatchesAt(s, sub, p) ==
  /\ p >= 1
  /\ p + Len(sub) - 1 <= Len(s)
  /\ \A j \in 1..Len(sub) : s[p + j - 1] = sub[j]

\* String.prototype.includes
includes(s, sub) == \E p \in 1..(Len(s) - Len(sub) + 1) : MatchesAt(s, sub, p)

\* String.prototype.startsWith
startsWith(s, prefix) == MatchesAt(s, prefix, 1)

\* String.prototype.slice(from) with a 0-based index
slice(s, from) == SubSeq(s, from + 1, Len(s))

\* String.prototype.split with a one-character separator
RECURSIVE split(_, _)
split(s, sep) ==
  LET hits == {i \in 1..Len(s) : s[i] = sep}
  IN  IF hits = {}
        THEN <<s>>
        ELSE <<SubSeq(s, 1, Min(hits) - 1)>> \o split(SubSeq(s, Min(hits) + 1, Len(s)), sep)

\* String.prototype.trim
trim(s) ==
  LET keep == {i \in 1..Len(s) : s[i] \notin WhiteSpace}
  IN  IF keep = {} THEN <<>> ELSE SubSeq(s, Min(keep), Max(keep))

\* A faulty join, which refutes C17: it keeps the first element only
joinFirst(list, sep) == IF Len(list) = 0 THEN <<>> ELSE list[1]

\* Array.prototype.join
RECURSIVE join(_, _)
join(list, sep) ==
  IF Len(list) = 0 THEN <<>>
  ELSE IF Len(list) = 1 THEN list[1]
  ELSE list[1] \o sep \o join(Tail(list), sep)

\* Array.prototype.slice(0, n)
sliceFirst(list, n) == SubSeq(list, 1, IF Len(list) < n THEN Len(list) ELSE n)

\* the decimal digits of a natural number, as String(n) writes them
RECURSIVE NumToStr(_)
NumToStr(n) ==
  IF n < 10 THEN <<Digits[n + 1]>> ELSE NumToStr(n \div 10) \o <<Digits[(n % 10) + 1]>>

DigitValue(c) == (CHOOSE i \in DOMAIN Digits : Digits[i] = c) - 1

\* parseInt of a non-empty string of decimal digits
RECURSIVE parseInt(_)
parseInt(ds) ==
  IF Len(ds) = 0 THEN 0
  ELSE parseInt(SubSeq(ds, 1, Len(ds) - 1)) * 10 + DigitValue(ds[Len(ds)])

\* Array.prototype.find, given the set of the indices whose element satisfies
\* the predicate: the first such element, as a sequence of length 1, or the
\* empty sequence for undefined
find(list, hits) == IF hits = {} THEN <<>> ELSE <<list[Min(hits)]>>

(***************************************************************************)
(* The model gateway: ollama.list() and the model selections.              *)
(***************************************************************************)
\* the family names the handlers look for in a model's name
Family ==
  [ llama32 |-> <<"l","l","a","m","a","3",".","2">>,
    llama |-> <<"l","l","a","m","a">>,
    llava |-> <<"l","l","a","v","a">>,
    vision |-> <<"v","i","s","i","o","n">>,
    gemma3 |-> <<"g","e","m","m","a","3">> ]

\* model names an Ollama installation may report
ModelName ==
  [ LLaVA |-> <<"L","L","a","V","A",":","1","3","b">>,
    gemma3 |-> <<"g","e","m","m","a","3",":","4","b">>,
    llama32 |-> <<"l","l","a","m","a","3",".","2",":","3","b">>,
    mistral |-> <<"m","i","s","t","r","a","l",":","7","b">> ]

\* the results of ollama.list(): a rejected promise (the transport failed) or
\* the list of the installed models' names
ListError == [ok |-> FALSE, models |-> <<>>]

Listing(names) == [ok |-> TRUE, models |-> names]

ModelLists ==
  { <<>>,
    <<ModelName.gemma3>>,
    <<ModelName.mistral, ModelName.LLaVA>>,
    <<ModelName.llama32, ModelName.gemma3>> }

ListOutcomes == {ListError} \cup {Listing(l) : l \in ModelLists}

\* the predicate of checkOllamaStatus's models.some(...)
hasLlama(name) ==
  \/ includes(toLowerCase(name), Family.llama32)
  \/ includes(toLowerCase(name), Family.llama)
  \/ includes(toLowerCase(name), Family.llava)

\* checkOllamaStatus, given what its ollama.list() call produced: the catch
\* block turns a rejected call into false
checkOllamaStatus(listed) ==
  IF listed.ok
    THEN \E i \in 1..Len(listed.models) : hasLlama(listed.models[i])
    ELSE FALSE

isVisionName(name) ==
  \/ includes(toLowerCase(name), Family.llava)
  \/ includes(toLowerCase(name), Family.vision)

isTextName(name) ==
  \/ includes(toLowerCase(name), Family.gemma3)
  \/ includes(toLowerCase(name), Family.llama32)
  \/ includes(toLowerCase(name), Family.llama)

\* models.models.find(... llava / vision ...)
visionModel(models) ==
  find(models, {i \in 1..Len(models) : isVisionName(models[i])})

\* A faulty text selection, which refutes C20: it takes a gemma3 model
\* wherever the list has one
textModelByFamily(models) ==
  LET gemma == find(models, {i \in 1..Len(models) :
                               includes(toLowerCase(models[i]), Family.gemma3)})
  IN  IF Len(gemma) > 0 THEN gemma
      ELSE find(models, {i \in 1..Len(models) : isTextName(models[i])})

\* models.models.find(... gemma3 / llama3.2 / llama ...)
textModel(models) ==
  find(models, {i \in 1..Len(models) : isTextName(models[i])})

(***************************************************************************)
(* The analysis extractor (the helper functions of app.ts).                *)
(***************************************************************************)
NL == "\n"

Colon == ":"

DocumentTypeText ==
  [ label1 |-> <<"d","o","c","u","m","e","n","t"," ","t","y","p","e">>,
    label2 |-> <<"t","y","p","e"," ","o","f"," ","d","r","a","w","i","n","g">>,
    floor_plan |-> <<"f","l","o","o","r"," ","p","l","a","n">>,
    elevation |-> <<"e","l","e","v","a","t","i","o","n">>,
    section |-> <<"s","e","c","t","i","o","n">>,
    Floor_Plan |-> <<"F","l","o","o","r"," ","P","l","a","n">>,
    Building_Elevation |-> <<"B","u","i","l","d","i","n","g"," ","E","l","e","v","a","t","i",
        "o","n">>,
    Building_Section |-> <<"B","u","i","l","d","i","n","g"," ","S","e","c","t","i","o","n">>,
    dflt |-> <<"A","r","c","h","i","t","e","c","t","u","r","a","l"," ","D","r","a","w","i",
        "n","g">> ]
ProjectText ==
  [ project |-> <<"p","r","o","j","e","c","t">>,
    title |-> <<"t","i","t","l","e">>,
    dflt |-> <<"A","r","c","h","i","t","e","c","t","u","r","a","l"," ","P","r","o","j","e",
        "c","t">>,
    scale |-> <<"s","c","a","l","e">>,
    sheet |-> <<"s","h","e","e","t">>,
    Not_specified |-> <<"N","o","t"," ","s","p","e","c","i","f","i","e","d">> ]


\* line.split(':')[1]?.trim() || dflt
valueAfterColon(line, dflt) ==
  LET parts == split(line, Colon)
  IN  IF Len(parts) >= 2 /\ Len(trim(parts[2])) > 0 THEN trim(parts[2]) ELSE dflt

isDocumentTypeLine(line) ==
  includes(line, DocumentTypeText.label1) \/ includes(line, DocumentTypeText.label2)

\* A faulty extractDocumentType, which refutes C15: it looks for "elevation"
\* before "floor plan"
extractDocumentTypeElevationFirst(text) ==
  LET lines == split(toLowerCase(text), NL)
      hit   == find(lines, {i \in 1..Len(lines) : isDocumentTypeLine(lines[i])})
  IN  IF Len(hit) > 0 THEN valueAfterColon(hit[1], DocumentTypeText.dflt)
      ELSE IF includes(toLowerCase(text), DocumentTypeText.elevation) THEN DocumentTypeText.Building_Elevation
      ELSE IF includes(toLowerCase(text), DocumentTypeText.floor_plan) THEN DocumentTypeText.Floor_Plan
      ELSE IF includes(toLowerCase(text), DocumentTypeText.section) THEN DocumentTypeText.Building_Section
      ELSE DocumentTypeText.dflt

extractDocumentType(text) ==
  LET lines == split(toLowerCase(text), NL)
      hit   == find(lines, {i \in 1..Len(lines) : isDocumentTypeLine(lines[i])})
  IN  IF Len(hit) > 0 THEN valueAfterColon(hit[1], DocumentTypeText.dflt)
      ELSE IF includes(toLowerCase(text), DocumentTypeText.floor_plan) THEN DocumentTypeText.Floor_Plan
      ELSE IF includes(toLowerCase(text), DocumentTypeText.elevation) THEN DocumentTypeText.Building_Elevation
      ELSE IF includes(toLowerCase(text), DocumentTypeText.section) THEN DocumentTypeText.Building_Section
      ELSE DocumentTypeText.dflt

isProjectTitleLine(line) ==
  includes(toLowerCase(line), ProjectText.project) \/ includes(toLowerCase(line), ProjectText.title)

extractProjectTitle(text) ==
  LET lines == split(text, NL)
      hit   == find(lines, {i \in 1..Len(lines) : isProjectTitleLine(lines[i])})
  IN  IF Len(hit) > 0 THEN valueAfterColon(hit[1], ProjectText.dflt)
      ELSE ProjectText.dflt

\* the end of the longest run of characters of class that starts at position
\* from of s (from - 1 when s[from] is not of the class)
RECURSIVE runEnd(_, _, _)
runEnd(s, from, class) ==
  IF from <= Len(s) /\ s[from] \in class THEN runEnd(s, from + 1, class) ELSE from - 1

\* the capture group of the regular expression  word sep* (group+)  matched
\* case-insensitively at position p of s, as a sequence of length 1, or the
\* empty sequence when the expression does not match at p.  sep* is greedy
\* and gives characters back until the group finds a first character.
groupAt(s, word, sep, group, p) ==
  IF ~MatchesAt(toLowerCase(s), word, p) THEN <<>>
  ELSE LET after  == p + Len(word)
           sepEnd == runEnd(s, after, sep)
           starts == {g \in after..(sepEnd + 1) : g <= Len(s) /\ s[g] \in group}
       IN  IF starts = {} THEN <<>>
           ELSE <<SubSeq(s, Max(starts), runEnd(s, Max(starts), group))>>

\* String.prototype.match for such an expression: the group of the leftmost match
matchGroup(s, word, sep, group) ==
  LET hits == {p \in 1..Len(s) : Len(groupAt(s, word, sep, group, p)) > 0}
  IN  IF hits = {} THEN <<>> ELSE groupAt(s, word, sep, group, Min(hits))

\* [:\s]
ClassColonSpace == {Colon} \cup WhiteSpace

\* [0-9\/"\s='-]
ClassScale ==
  {Digits[i] : i \in DOMAIN Digits} \cup {"/", "\"", "=", "'", "-"} \cup WhiteSpace

\* [A-Z0-9\-\.] under the flag i
ClassSheet ==
  {UpperCaseLetters[i] : i \in DOMAIN UpperCaseLetters}
    \cup {LowerCaseLetters[i] : i \in DOMAIN LowerCaseLetters}
    \cup {Digits[i] : i \in DOMAIN Digits} \cup {"-", "."}

\* text.match(/scale[:\s]*([0-9\/"\s='-]+)/i)
extractScale(text) ==
  LET scaleMatch == matchGroup(text, ProjectText.scale, ClassColonSpace, ClassScale)
  IN  IF Len(scaleMatch) > 0 THEN trim(scaleMatch[1]) ELSE ProjectText.Not_specified

\* text.match(/sheet[:\s]*([A-Z0-9\-\.]+)/i)
extractSheetNumber(text) ==
  LET sheetMatch == matchGroup(text, ProjectText.sheet, ClassColonSpace, ClassSheet)
  IN  IF Len(sheetMatch) > 0 THEN trim(sheetMatch[1]) ELSE ProjectText.Not_specified

\* the lines of text (trimmed) whose lower-cased form contains a keyword, or
\* the one placeholder
trimAll(lines) == [i \in 1..Len(lines) |-> trim(lines[i])]

drawingKeywords ==
  << <<"e","l","e","v","a","t","i","o","n">>,
     <<"p","l","a","n">>,
     <<"s","e","c","t","i","o","n">>,
     <<"d","e","t","a","i","l">>,
     <<"v","i","e","w">>,
     <<"d","r","a","w","i","n","g">> >>

drawingsPlaceholder ==
  <<"A","r","c","h","i","t","e","c","t","u","r","a","l"," ","d","r","a","w","i","n","g","s",
    " ","p","r","e","s","e","n","t">>

isDrawingLine(line) ==
  \E k \in 1..Len(drawingKeywords) : includes(toLowerCase(line), drawingKeywords[k])

extractDrawings(text) ==
  LET drawings == trimAll(SelectSeq(split(text, NL), isDrawingLine))
  IN  IF Len(drawings) > 0 THEN drawings ELSE <<drawingsPlaceholder>>

noteKeywords ==
  << <<"n","o","t","e">>,
     <<"s","p","e","c","i","f","i","c","a","t","i","o","n">>,
     <<"r","e","q","u","i","r","e","m","e","n","t">>,
     <<"c","o","d","e">>,
     <<"s","t","a","n","d","a","r","d">> >>

notesPlaceholder ==
  <<"C","o","n","s","t","r","u","c","t","i","o","n"," ","n","o","t","e","s"," ","m","a","y",
    " ","b","e"," ","p","r","e","s","e","n","t">>

isNoteLine(line) ==
  \E k \in 1..Len(noteKeywords) : includes(toLowerCase(line), noteKeywords[k])

extractNotes(text) ==
  LET notes == trimAll(SelectSeq(split(text, NL), isNoteLine))
  IN  IF Len(notes) > 0 THEN notes ELSE <<notesPlaceholder>>

featureKeywords ==
  << <<"f","e","a","t","u","r","e">>,
     <<"e","l","e","m","e","n","t">>,
     <<"r","o","o","m">>,
     <<"s","p","a","c","e">>,
     <<"a","r","e","a">>,
     <<"d","e","s","i","g","n">> >>

featuresPlaceholder ==
  <<"A","r","c","h","i","t","e","c","t","u","r","a","l"," ","f","e","a","t","u","r","e","s",
    " ","i","d","e","n","t","i","f","i","e","d">>

isFeatureLine(line) ==
  \E k \in 1..Len(featureKeywords) : includes(toLowerCase(line), featureKeywords[k])

extractFeatures(text) ==
  LET features == trimAll(SelectSeq(split(text, NL), isFeatureLine))
  IN  IF Len(features) > 0 THEN features ELSE <<featuresPlaceholder>>

materialsPlaceholder ==
  <<"B","u","i","l","d","i","n","g"," ","m","a","t","e","r","i","a","l","s"," ","s","p","e",
    "c","i","f","i","e","d">>

commonMaterials ==
  << <<"c","o","n","c","r","e","t","e">>,
     <<"s","t","e","e","l">>,
     <<"w","o","o","d">>,
     <<"b","r","i","c","k">>,
     <<"s","t","o","n","e">>,
     <<"g","l","a","s","s">>,
     <<"m","e","t","a","l">>,
     <<"g","r","a","n","i","t","e">>,
     <<"c","o","p","p","e","r">>,
     <<"a","l","u","m","i","n","u","m">>,
     <<"v","i","n","y","l">>,
     <<"c","e","r","a","m","i","c">>,
     <<"t","i","l","e">>,
     <<"d","r","y","w","a","l","l">>,
     <<"i","n","s","u","l","a","t","i","o","n">>,
     <<"r","o","o","f","i","n","g">>,
     <<"f","l","o","o","r","i","n","g">>,
     <<"s","i","d","i","n","g">> >>

\* material.charAt(0).toUpperCase() + material.slice(1)
capitalize(material) ==
  IF Len(material) = 0 THEN <<>> ELSE <<toUpperChar(material[1])>> \o slice(material, 1)

\* the loop of extractMaterials over the vocabulary from its index i on
RECURSIVE materialsFrom(_, _)
materialsFrom(text, i) ==
  IF i > Len(commonMaterials) THEN <<>>
  ELSE (IF includes(toLowerCase(text), commonMaterials[i])
          THEN <<capitalize(commonMaterials[i])>>
          ELSE <<>>) \o materialsFrom(text, i + 1)

\* A faulty extractMaterials, which refutes C14: it lists every material twice
extractMaterialsTwice(text) ==
  LET materials == materialsFrom(text, 1)
  IN  IF Len(materials) > 0 THEN materials \o materials ELSE <<materialsPlaceholder>>

extractMaterials(text) ==
  LET materials == materialsFrom(text, 1)
  IN  IF Len(materials) > 0 THEN materials ELSE <<materialsPlaceholder>>

StructureText ==
  [ residential |-> <<"r","e","s","i","d","e","n","t","i","a","l">>,
    commercial |-> <<"c","o","m","m","e","r","c","i","a","l">>,
    office |-> <<"o","f","f","i","c","e">>,
    house |-> <<"h","o","u","s","e">>,
    foundation |-> <<"f","o","u","n","d","a","t","i","o","n">>,
    Building_structure |-> <<"B","u","i","l","d","i","n","g"," ","s","t","r","u","c","t","u",
        "r","e">>,
    Residential_structure |-> <<"R","e","s","i","d","e","n","t","i","a","l"," ","s","t","r",
        "u","c","t","u","r","e">>,
    Commercial_structure |-> <<"C","o","m","m","e","r","c","i","a","l"," ","s","t","r","u",
        "c","t","u","r","e">>,
    Office_building |-> <<"O","f","f","i","c","e"," ","b","u","i","l","d","i","n","g">>,
    House |-> <<"H","o","u","s","e">>,
    Foundation_details_specified |-> <<"F","o","u","n","d","a","t","i","o","n"," ","d","e",
        "t","a","i","l","s"," ","s","p","e","c","i","f","i","e","d">> ]

floorWords ==
  << <<"f","l","o","o","r">>,
     <<"s","t","o","r","y">>,
     <<"l","e","v","e","l">>,
     <<"s","t","o","r","e","y">> >>

DigitClass == {Digits[i] : i \in DOMAIN Digits}

\* the group (\d+) of /(\d+)\s*(?:floor|story|level|storey)/i matched at
\* position p of text, as a sequence of length 1, or the empty sequence
floorGroupAt(text, p) ==
  LET digitsEnd == runEnd(text, p, DigitClass)
      wordAt    == runEnd(text, digitsEnd + 1, WhiteSpace) + 1
  IN  IF /\ digitsEnd >= p
         /\ \E k \in 1..Len(floorWords) : MatchesAt(toLowerCase(text), floorWords[k], wordAt)
        THEN <<SubSeq(text, p, digitsEnd)>>
        ELSE <<>>

\* text.match(/(\d+)\s*(?:floor|story|level|storey)/i)
floorMatch(text) ==
  LET hits == {p \in 1..Len(text) : Len(floorGroupAt(text, p)) > 0}
  IN  IF hits = {} THEN <<>> ELSE floorGroupAt(text, Min(hits))

\* a floors value is a number or a string
NumberValue(n) == [number |-> n]

StringValue(s) == [string |-> s]

\* the string a template literal makes of a floors value
templateString(v) == IF "number" \in DOMAIN v THEN NumToStr(v.number) ELSE v.string

\* the four if statements of extractStructuralElements, each overwriting type
structureType(text) ==
  LET t0 == StructureText.Building_structure
      t1 == IF includes(toLowerCase(text), StructureText.residential) THEN StructureText.Residential_structure ELSE t0
      t2 == IF includes(toLowerCase(text), StructureText.commercial) THEN StructureText.Commercial_structure ELSE t1
      t3 == IF includes(toLowerCase(text), StructureText.office) THEN StructureText.Office_building ELSE t2
      t4 == IF includes(toLowerCase(text), StructureText.house) THEN StructureText.House ELSE t3
  IN  t4

\* the foundation field is left out of the record when the code sets it to
\* undefined
extractStructuralElements(text) ==
  LET floors == IF Len(floorMatch(text)) > 0
                  THEN NumberValue(parseInt(floorMatch(text)[1]))
                  ELSE StringValue(ProjectText.Not_specified)
      base   == [floors |-> floors, type |-> structureType(text)]
  IN  IF includes(toLowerCase(text), StructureText.foundation)
        THEN [floors |-> floors, type |-> structureType(text),
              foundation |-> StructureText.Foundation_details_specified]
        ELSE base

(***************************************************************************)
(* The analysis record and the fallback generator.                         *)
(***************************************************************************)
DateText ==
  [ prefix |-> <<"1","9","7","0","-","0","1","-","0","1","T","0","0",":","0","0",":","0","0",
        ".">>,
    Z |-> <<"Z">> ]

\* new Date().toISOString() at the clock value ms (milliseconds since the
\* epoch, below one second)
toISOString(ms) ==
  DateText.prefix
    \o (IF ms < 10 THEN <<"0", "0">> ELSE IF ms < 100 THEN <<"0">> ELSE <<>>)
    \o NumToStr(ms) \o DateText.Z

\* A faulty parse, which refutes C12: it writes the clock into the title
analysisResultStamped(analysisText, originalname, ms) ==
  [ documentType |-> extractDocumentType(analysisText),
    projectInfo |->
      [ title |-> toISOString(ms),
        fileName |-> originalname,
        uploadDate |-> toISOString(ms),
        scale |-> extractScale(analysisText),
        sheetNumber |-> extractSheetNumber(analysisText) ],
    drawings |-> extractDrawings(analysisText),
    generalNotes |-> extractNotes(analysisText),
    keyFeatures |-> extractFeatures(analysisText),
    materialsList |-> extractMaterials(analysisText),
    structuralElements |-> extractStructuralElements(analysisText),
    extractedText |-> analysisText ]

\* A faulty parse, which refutes C21: it keeps the document type where the
\* text belongs
analysisResultSummarised(analysisText, originalname, ms) ==
  [ documentType |-> extractDocumentType(analysisText),
    projectInfo |->
      [ title |-> extractProjectTitle(analysisText),
        fileName |-> originalname,
        uploadDate |-> toISOString(ms),
        scale |-> extractScale(analysisText),
        sheetNumber |-> extractSheetNumber(analysisText) ],
    drawings |-> extractDrawings(analysisText),
    generalNotes |-> extractNotes(analysisText),
    keyFeatures |-> extractFeatures(analysisText),
    materialsList |-> extractMaterials(analysisText),
    structuralElements |-> extractStructuralElements(analysisText),
    extractedText |-> extractDocumentType(analysisText) ]

\* the object literal of the upload handler that parses analysisText
analysisResult(analysisText, originalname, ms) ==
  [ documentType |-> extractDocumentType(analysisText),
    projectInfo |->
      [ title |-> extractProjectTitle(analysisText),
        fileName |-> originalname,
        uploadDate |-> toISOString(ms),
        scale |-> extractScale(analysisText),
        sheetNumber |-> extractSheetNumber(analysisText) ],
    drawings |-> extractDrawings(analysisText),
    generalNotes |-> extractNotes(analysisText),
    keyFeatures |-> extractFeatures(analysisText),
    materialsList |-> extractMaterials(analysisText),
    structuralElements |-> extractStructuralElements(analysisText),
    extractedText |-> analysisText ]

\* the strings of generateFallbackAnalysis
FallbackText ==
  [ documentType |-> <<"A","r","c","h","i","t","e","c","t","u","r","a","l"," ","D","r","a",
        "w","i","n","g">>,
    title |-> <<"A","r","c","h","i","t","e","c","t","u","r","a","l"," ","P","r","o","j","e",
        "c","t">>,
    scale |-> <<"V","a","r","i","o","u","s"," ","s","c","a","l","e","s">>,
    sheetNumber |-> <<"N","o","t"," ","s","p","e","c","i","f","i","e","d">>,
    floors |-> <<"M","u","l","t","i","p","l","e"," ","l","e","v","e","l","s">>,
    type |-> <<"B","u","i","l","d","i","n","g"," ","s","t","r","u","c","t","u","r","e">>,
    foundation |-> <<"F","o","u","n","d","a","t","i","o","n"," ","s","y","s","t","e","m">>,
    extractedText |-> <<"T","h","i","s"," ","a","r","c","h","i","t","e","c","t","u","r","a",
        "l"," ","d","r","a","w","i","n","g"," ","s","h","o","w","s"," ","a"," ","b","u","i",
        "l","d","i","n","g"," ","d","e","s","i","g","n"," ","w","i","t","h"," ","m","u","l",
        "t","i","p","l","e"," ","f","l","o","o","r","s"," ","a","n","d"," ","s","t","a","n",
        "d","a","r","d"," ","c","o","n","s","t","r","u","c","t","i","o","n"," ","d","e","t",
        "a","i","l","s","."," ","T","h","e"," ","d","r","a","w","i","n","g"," ","i","n","c",
        "l","u","d","e","s"," ","f","l","o","o","r"," ","p","l","a","n","s",","," ","e","l",
        "e","v","a","t","i","o","n","s",","," ","a","n","d"," ","c","o","n","s","t","r","u",
        "c","t","i","o","n"," ","s","p","e","c","i","f","i","c","a","t","i","o","n","s"," ",
        "t","y","p","i","c","a","l"," ","o","f"," ","a","r","c","h","i","t","e","c","t","u",
        "r","a","l"," ","p","r","o","j","e","c","t","s",".">> ]

fallbackDrawings ==
  << <<"F","l","o","o","r"," ","p","l","a","n","s"," ","a","n","d"," ","e","l","e","v","a",
        "t","i","o","n","s">>,
     <<"A","r","c","h","i","t","e","c","t","u","r","a","l"," ","d","e","t","a","i","l","s">>,
     <<"C","o","n","s","t","r","u","c","t","i","o","n"," ","d","r","a","w","i","n","g","s">> >>

fallbackNotes ==
  << <<"C","o","n","s","t","r","u","c","t","i","o","n"," ","t","o"," ","c","o","m","p","l",
        "y"," ","w","i","t","h"," ","l","o","c","a","l"," ","b","u","i","l","d","i","n","g",
        " ","c","o","d","e","s">>,
     <<"A","l","l"," ","d","i","m","e","n","s","i","o","n","s"," ","t","o"," ","b","e"," ",
        "v","e","r","i","f","i","e","d"," ","o","n"," ","s","i","t","e">>,
     <<"M","a","t","e","r","i","a","l","s"," ","s","u","b","j","e","c","t"," ","t","o"," ",
        "a","p","p","r","o","v","a","l">> >>

fallbackFeatures ==
  << <<"A","r","c","h","i","t","e","c","t","u","r","a","l"," ","s","t","r","u","c","t","u",
        "r","e">>,
     <<"M","u","l","t","i","p","l","e"," ","r","o","o","m","s"," ","a","n","d"," ","s","p",
        "a","c","e","s">>,
     <<"S","t","a","n","d","a","r","d"," ","c","o","n","s","t","r","u","c","t","i","o","n",
        " ","d","e","t","a","i","l","s">>,
     <<"B","u","i","l","d","i","n","g"," ","s","y","s","t","e","m","s"," ","i","n","t","e",
        "g","r","a","t","i","o","n">> >>

fallbackMaterials ==
  << <<"C","o","n","c","r","e","t","e">>,
     <<"S","t","e","e","l">>,
     <<"W","o","o","d">>,
     <<"G","l","a","s","s">>,
     <<"B","r","i","c","k">> >>

generateFallbackAnalysis(fileName, ms) ==
  [ documentType |-> FallbackText.documentType,
    projectInfo |->
      [ title |-> FallbackText.title,
        fileName |-> fileName,
        uploadDate |-> toISOString(ms),
        scale |-> FallbackText.scale,
        sheetNumber |-> FallbackText.sheetNumber ],
    drawings |-> fallbackDrawings,
    generalNotes |-> fallbackNotes,
    keyFeatures |-> fallbackFeatures,
    materialsList |-> fallbackMaterials,
    structuralElements |->
      [ floors |-> StringValue(FallbackText.floors),
        type |-> FallbackText.type,
        foundation |-> FallbackText.foundation ],
    extractedText |-> FallbackText.extractedText ]

\* the keywords generateFallbackAnswer looks for in the question
QuestionWord ==
  [ floor |-> <<"f","l","o","o","r">>,
    story |-> <<"s","t","o","r","y">>,
    level |-> <<"l","e","v","e","l">>,
    material |-> <<"m","a","t","e","r","i","a","l">>,
    construction |-> <<"c","o","n","s","t","r","u","c","t","i","o","n">>,
    room |-> <<"r","o","o","m">>,
    space |-> <<"s","p","a","c","e">>,
    layout |-> <<"l","a","y","o","u","t">>,
    drawing |-> <<"d","r","a","w","i","n","g">>,
    plan |-> <<"p","l","a","n">> ]

\* the fixed parts of generateFallbackAnswer's template literals
AnswerText ==
  [ comma |-> <<","," ">>,
    period |-> <<".">>,
    floors1 |-> <<"B","a","s","e","d"," ","o","n"," ","t","h","e"," ","a","r","c","h","i","t",
        "e","c","t","u","r","a","l"," ","d","r","a","w","i","n","g"," ","a","n","a","l","y",
        "s","i","s",","," ","t","h","i","s"," ","b","u","i","l","d","i","n","g"," ","h","a",
        "s"," ">>,
    floors2 |-> <<" ","f","l","o","o","r","s","."," ","T","h","e"," ","s","t","r","u","c","t",
        "u","r","e"," ","i","s"," ","d","e","s","i","g","n","e","d"," ","a","s"," ","a"," ">>,
    materials1 |-> <<"T","h","e"," ","m","a","t","e","r","i","a","l","s"," ","s","p","e","c",
        "i","f","i","e","d"," ","i","n"," ","t","h","i","s"," ","p","r","o","j","e","c","t",
        " ","i","n","c","l","u","d","e",":"," ">>,
    materials2 |-> <<"."," ","T","h","e"," ","c","o","n","s","t","r","u","c","t","i","o","n",
        " ","u","s","e","s"," ">>,
    materials3 |-> <<" ","m","e","t","h","o","d","s",".">>,
    rooms1 |-> <<"T","h","e"," ","b","u","i","l","d","i","n","g"," ","l","a","y","o","u","t",
        " ","i","n","c","l","u","d","e","s",":"," ">>,
    rooms2 |-> <<"."," ","T","h","e"," ","d","e","s","i","g","n"," ","s","h","o","w","s"," ">>,
    rooms3 |-> <<" ","w","i","t","h"," ","v","a","r","i","o","u","s"," ","a","r","c","h","i",
        "t","e","c","t","u","r","a","l"," ","s","p","a","c","e","s",".">>,
    drawings1 |-> <<"T","h","i","s"," ","d","o","c","u","m","e","n","t"," ","c","o","n","t",
        "a","i","n","s",":"," ">>,
    drawings2 |-> <<"."," ","T","h","e"," ","m","a","i","n"," ","d","r","a","w","i","n","g",
        " ","t","y","p","e"," ","i","s"," ">>,
    default1 |-> <<"B","a","s","e","d"," ","o","n"," ","t","h","e"," ","a","r","c","h","i",
        "t","e","c","t","u","r","a","l"," ","d","r","a","w","i","n","g"," ","a","n","a","l",
        "y","s","i","s",","," ","t","h","i","s"," ","i","s"," ","a"," ">>,
    default2 |-> <<"."," ","K","e","y"," ","f","e","a","t","u","r","e","s"," ","i","n","c",
        "l","u","d","e",":"," ">>,
    default3 |-> <<"."," ","T","h","e"," ","s","t","r","u","c","t","u","r","e"," ","h","a",
        "s"," ">>,
    default4 |-> <<" ","f","l","o","o","r","s"," ","a","n","d"," ","u","s","e","s"," ","m",
        "a","t","e","r","i","a","l","s"," ","l","i","k","e"," ">> ]

\* A faulty generateFallbackAnswer, which refutes C16: it answers every
\* question with the default summary
generateFallbackAnswerSummary(question, analysis) ==
  AnswerText.default1 \o analysis.documentType
    \o AnswerText.default2 \o join(sliceFirst(analysis.keyFeatures, 3), AnswerText.comma)
    \o AnswerText.default3 \o templateString(analysis.structuralElements.floors)
    \o AnswerText.default4 \o join(sliceFirst(analysis.materialsList, 3), AnswerText.comma)
    \o AnswerText.period

\* A faulty generateFallbackAnswer, which refutes C18: it looks for the
\* words of the materials template first
generateFallbackAnswerMaterialsFirst(question, analysis) ==
  LET questionLower == toLowerCase(question)
  IN  IF \/ includes(questionLower, QuestionWord.material)
         \/ includes(questionLower, QuestionWord.construction)
        THEN AnswerText.materials1 \o join(analysis.materialsList, AnswerText.comma)
               \o AnswerText.materials2 \o analysis.structuralElements.type
               \o AnswerText.materials3
      ELSE generateFallbackAnswerSummary(question, analysis)

generateFallbackAnswer(question, analysis) ==
  LET questionLower == toLowerCase(question)
  IN  IF \/ includes(questionLower, QuestionWord.floor)
         \/ includes(questionLower, QuestionWord.story)
         \/ includes(questionLower, QuestionWord.level)
        THEN AnswerText.floors1 \o templateString(analysis.structuralElements.floors)
               \o AnswerText.floors2 \o analysis.structuralElements.type \o AnswerText.period
      ELSE IF \/ includes(questionLower, QuestionWord.material)
              \/ includes(questionLower, QuestionWord.construction)
        THEN AnswerText.materials1 \o join(analysis.materialsList, AnswerText.comma)
               \o AnswerText.materials2 \o analysis.structuralElements.type
               \o AnswerText.materials3
      ELSE IF \/ includes(questionLower, QuestionWord.room)
              \/ includes(questionLower, QuestionWord.space)
              \/ includes(questionLower, QuestionWord.layout)
        THEN AnswerText.rooms1 \o join(analysis.keyFeatures, AnswerText.comma)
               \o AnswerText.rooms2 \o analysis.documentType \o AnswerText.rooms3
      ELSE IF \/ includes(questionLower, QuestionWord.drawing)
              \/ includes(questionLower, QuestionWord.plan)
        THEN AnswerText.drawings1 \o join(analysis.drawings, AnswerText.comma)
               \o AnswerText.drawings2 \o analysis.documentType \o AnswerText.period
      ELSE AnswerText.default1 \o analysis.documentType
             \o AnswerText.default2
             \o join(sliceFirst(analysis.keyFeatures, 3), AnswerText.comma)
             \o AnswerText.default3 \o templateString(analysis.structuralElements.floors)
             \o AnswerText.default4
             \o join(sliceFirst(analysis.materialsList, 3), AnswerText.comma)
             \o AnswerText.period

(***************************************************************************)
(* The inputs of the model: uploaded files, generated texts, questions.    *)
(***************************************************************************)
\* the MIME types the program names, and one it does not
MimeType ==
  [ jpeg |-> <<"i","m","a","g","e","/","j","p","e","g">>,
    png |-> <<"i","m","a","g","e","/","p","n","g">>,
    gif |-> <<"i","m","a","g","e","/","g","i","f">>,
    webp |-> <<"i","m","a","g","e","/","w","e","b","p">>,
    image |-> <<"i","m","a","g","e","/">>,
    pdf |-> <<"a","p","p","l","i","c","a","t","i","o","n","/","p","d","f">> ]

\* the parts of a stored file's name: the form field and the separator
KeyText ==
  [ fieldname |-> <<"d","o","c","u","m","e","n","t">>,
    dash |-> <<"-">> ]

\* names of uploaded files
OriginalName ==
  [ plan |-> <<"p","l","a","n",".","v","2",".","p","n","g">>,
    spec |-> <<"s","p","e","c",".","p","d","f">> ]

\* req.file: undefined when the request carries no file
NoFile == [present |-> FALSE, originalname |-> <<>>, mimetype |-> <<>>]

File(originalname, mimetype) ==
  [present |-> TRUE, originalname |-> originalname, mimetype |-> mimetype]

UploadFiles ==
  { File(OriginalName.plan, MimeType.png),
    File(OriginalName.spec, MimeType.pdf) }

\* texts ollama.generate may return: two for an upload, one for a chat question
GeneratedText ==
  [ villa |-> <<"D","o","c","u","m","e","n","t"," ","T","y","p","e",":"," ","F","l","o","o",
        "r"," ","P","l","a","n","\n","P","r","o","j","e","c","t",":"," ","V","i","l","l","a",
        " ","R","o","s","a","\n","S","c","a","l","e",":"," ","1","/","4","\""," ","="," ","1",
        "'","-","0","\"","\n","S","h","e","e","t",":"," ","A","-","1","0","1","\n","T","h",
        "i","s"," ","r","e","s","i","d","e","n","t","i","a","l"," ","3","-","s","t","o","r",
        "y"," ","b","u","i","l","d","i","n","g"," ","u","s","e","s"," ","c","o","n","c","r",
        "e","t","e"," ","a","n","d"," ","s","t","e","e","l",".">>,
    empty |-> <<>>,
    answer |-> <<"T","h","e"," ","b","u","i","l","d","i","n","g"," ","h","a","s"," ","t","h",
        "r","e","e"," ","f","l","o","o","r","s",".">> ]

UploadTexts == {GeneratedText.villa, GeneratedText.empty}

\* what the upload handler appends to the text of a text model
noteSuffix ==
  <<"\n","\n","N","o","t","e",":"," ","T","h","i","s"," ","i","s"," ","a"," ","g","e","n","e",
    "r","a","l"," ","a","n","a","l","y","s","i","s","."," ","F","o","r"," ","d","e","t","a",
    "i","l","e","d"," ","i","m","a","g","e"," ","a","n","a","l","y","s","i","s",","," ","p",
    "l","e","a","s","e"," ","i","n","s","t","a","l","l"," ","L","L","a","V","A"," ","m","o",
    "d","e","l"," ","w","i","t","h",":"," ","o","l","l","a","m","a"," ","p","u","l","l"," ",
    "l","l","a","v","a">>

ChatTexts == {GeneratedText.answer}

\* the results of ollama.generate(): a rejected promise or {response: text}
GenerateError == [ok |-> FALSE, response |-> <<>>]

Generated(text) == [ok |-> TRUE, response |-> text]

QuestionText ==
  [ materials |-> <<"W","h","i","c","h"," ","m","a","t","e","r","i","a","l","s"," ","a","r",
        "e"," ","u","s","e","d","?">>,
    flooring |-> <<"W","h","i","c","h"," ","f","l","o","o","r","i","n","g"," ","m","a","t",
        "e","r","i","a","l"," ","i","s"," ","u","s","e","d","?">> ]

\* the readings of the clock, Date.now() and new Date(), in milliseconds
ClockValues == {0, 1}

\* the values of Math.round(Math.random() * 1E9)
RandomValues == {0, 1}

\* req.body.question: a string; the empty sequence stands for a missing or
\* empty question
Questions == {QuestionText.materials, QuestionText.flooring, <<>>}

(***************************************************************************)
(* The upload transport (multer).                                          *)
(***************************************************************************)
allowedTypes == {MimeType.jpeg, MimeType.png, MimeType.gif, MimeType.webp}

\* multer's fileFilter: cb(null, true) exactly for the allowed MIME types
fileFilter(file) == file.mimetype \in allowedTypes

\* path.extname of a file name without directory part
extname(name) ==
  LET dots == {i \in 1..Len(name) : name[i] = "."}
  IN  IF dots = {} \/ Max(dots) = 1 THEN <<>> ELSE SubSeq(name, Max(dots), Len(name))

\* the filename callback of multer.diskStorage: ms is Date.now() and rnd is
\* Math.round(Math.random() * 1E9)
filename(file, ms, rnd) ==
  KeyText.fieldname \o KeyText.dash \o (NumToStr(ms) \o KeyText.dash \o NumToStr(rnd))
    \o extname(file.originalname)

\* every key an upload of the model can be given
PossibleKeys ==
  {filename(f, ms, rnd) : f \in {g \in UploadFiles : fileFilter(g)},
                          ms \in ClockValues, rnd \in RandomValues}

\* req.body.fileName of a chat request; the empty sequence stands for a
\* missing or empty fileName
ChatFileNames == PossibleKeys \cup {<<>>}

(***************************************************************************)
(* The pure functions above, tabulated once over the inputs of the model.  *)
(***************************************************************************)
\* the files that pass the fileFilter
AcceptedFiles == {f \in UploadFiles : fileFilter(f)}

OriginalNames == {f.originalname : f \in AcceptedFiles}

\* the texts the upload handler parses: what a vision model returned, or what
\* a text model returned followed by the note
AnalysisTexts == UploadTexts \cup {t \o noteSuffix : t \in UploadTexts}

filenameOf == [f \in AcceptedFiles, ms \in ClockValues, rnd \in RandomValues |-> filename(f, ms, rnd)]

ollamaStatusOf == [listed \in ListOutcomes |-> checkOllamaStatus(listed)]

visionModelOf == [l \in ModelLists |-> visionModel(l)]

textModelOf == [l \in ModelLists |-> textModel(l)]

analysisResultOf ==
  [text \in AnalysisTexts, name \in OriginalNames, ms \in ClockValues |->
     analysisResult(text, name, ms)]

fallbackAnalysisOf ==
  [name \in OriginalNames, ms \in ClockValues |-> generateFallbackAnalysis(name, ms)]

\* every record the cache of the model can hold
Records ==
  {analysisResultOf[text, name, ms] :
     text \in AnalysisTexts, name \in OriginalNames, ms \in ClockValues}
    \cup {fallbackAnalysisOf[name, ms] : name \in OriginalNames, ms \in ClockValues}

fallbackAnswerOf ==
  [question \in Questions \ {<<>>}, analysis \in Records |->
     generateFallbackAnswer(question, analysis)]

(***************************************************************************)
(* The state of the server.                                                *)
(***************************************************************************)
VARIABLES
  analysisCache,  \* the Map analysisCache: a function from the keys present
  requests,       \* each HTTP request: where its handler stands, its locals, its response
  now,            \* the clock Date.now() and new Date() read
  observed,       \* per request, what it did to the gateway and the cache (history)
  extraction,     \* a text given to the extractors and the record they return
  answering,      \* a question and a record given to generateFallbackAnswer, and its answer
  selection,      \* a model list given to checkOllamaStatus and the selections, and their results
  endpoints,      \* the start-up callback and the GET endpoints: where they stand, their responses
  client          \* the state of the React component App, and its requests in flight

vars == <<analysisCache, requests, now, observed, extraction, answering, selection, endpoints, client>>

\* the state of the request handlers, and the state of what is followed apart
\* from them: the calls of the pure functions, the start-up, the GET endpoints
\* and the client
serverVars == <<analysisCache, requests, now, observed>>

functionVars == <<extraction, answering, selection, endpoints, client>>

Requests == 1..MaxReq

NoResponse == [status |-> 0, body |-> <<>>]

Respond(status, body) == [status |-> status, body |-> body]

IdleRequest ==
  [ kind |-> "none", pc |-> "idle", file |-> NoFile, fileName |-> <<>>,
    question |-> <<>>, analysis |-> <<>>, model |-> <<>>, mode |-> "none",
    response |-> NoResponse ]

\* the history kept of a request: its calls of ollama.list() and
\* ollama.generate() and how they went, what it found in the cache when it
\* arrived, and what it wrote to the cache
NothingObserved ==
  [ lists |-> 0, generates |-> 0,
    unavailable |-> FALSE, emptyListing |-> FALSE, generateThrew |-> FALSE,
    generatedAfterFailure |-> FALSE,
    keyPresent |-> FALSE, afterUpload |-> FALSE,
    stored |-> FALSE, overwrote |-> FALSE, producedBy |-> "none", generated |-> <<>> ]

(***************************************************************************)
(* Faulty maps.  Each of C4, C6, C8 and C10 is refuted when the Map of the *)
(* program is replaced by the one named for it here.                       *)
(***************************************************************************)
\* a get that answers an absent key with an entry of another key
getSomeEntry(cache, key) ==
  IF key \in DOMAIN cache THEN <<cache[key]>>
  ELSE IF DOMAIN cache # {} THEN <<cache[CHOOSE k \in DOMAIN cache : TRUE]>>
  ELSE <<>>

\* a set that loses the value
setLost(cache, key, value) == cache

\* a set that drops every other entry
setReplacing(cache, key, value) == [k \in {key} |-> value]

\* a set that writes the value under every key
setEverywhere(cache, key, value) == [k \in DOMAIN cache \cup {key} |-> value]

\* Map.prototype.has, get and set
has(cache, key) == key \in DOMAIN cache

get(cache, key) == IF key \in DOMAIN cache THEN <<cache[key]>> ELSE <<>>

set(cache, key, value) ==
  [k \in DOMAIN cache \cup {key} |-> IF k = key THEN value ELSE cache[k]]

\* no call of a pure function is followed
NoExtraction == [lines |-> <<>>, done |-> FALSE, result |-> <<>>]

NoAnswering == [words |-> <<>>, record |-> <<>>, answer |-> <<>>]

NoSelection == [models |-> <<>>, done |-> FALSE, usable |-> FALSE, vision |-> <<>>, text |-> <<>>]

Init ==
  /\ analysisCache = <<>>
  /\ requests = [i \in Requests |-> IdleRequest]
  /\ now = 0
  /\ observed = [i \in Requests |-> NothingObserved]
  /\ extraction = NoExtraction
  /\ answering = NoAnswering
  /\ selection = NoSelection
  /\ endpoints = [pc |-> "listen", responses |-> <<>>, rejected |-> FALSE]
  /\ client = [ uploadedFile |-> <<>>, fileName |-> <<>>, analysisResult |-> <<>>,
                isAnalyzing |-> FALSE, chatHistory |-> <<>>, isAnswering |-> FALSE,
                sent |-> <<>>, analysed |-> <<>>, asked |-> <<>> ]

\* the clock advances
Tick ==
  /\ now + 1 \in ClockValues
  /\ now' = now + 1
  /\ UNCHANGED functionVars
  /\ UNCHANGED <<analysisCache, requests, observed>>

\* request i answers, res.status(...).json(...), and its handler returns: the
\* model it had selected goes out of scope
Answered(i, response) ==
  [requests EXCEPT ![i].pc = "done", ![i].response = response,
                   ![i].model = <<>>, ![i].mode = "none"]

\* requests arrive in the order of their numbers
MayArrive(i) ==
  /\ requests[i].pc = "idle"
  /\ \A j \in Requests : j < i => requests[j].pc # "idle"

(***************************************************************************)
(* POST /api/upload.                                                       *)
(***************************************************************************)

\* the history of request i after a call of ollama.list() that produced
\* listed; failure: the call was rejected or no model of the list was usable
ListObserved(i, listed, failure) ==
  [observed EXCEPT ![i].lists = @ + 1,
                   ![i].unavailable = @ \/ failure,
                   ![i].emptyListing = @ \/ (listed.ok /\ Len(listed.models) = 0)]

\* the history of request i after a call of ollama.generate() that produced out
GenerateObserved(obs, i, out) ==
  [obs EXCEPT ![i].generates = @ + 1,
              ![i].generatedAfterFailure = @ \/ obs[i].unavailable \/ obs[i].generateThrew,
              ![i].generateThrew = @ \/ ~out.ok,
              ![i].generated = IF out.ok THEN <<out.response>> ELSE @]

\* the history of request i after analysisCache.set(key, ...)
StoreObserved(obs, i, key, by) ==
  [obs EXCEPT ![i].stored = TRUE,
              ![i].overwrote = has(analysisCache, key),
              ![i].producedBy = by]

\* A faulty catch block, which refutes C22: it caches the record parsed from
\* an empty text
UploadFallbackParsed(i, obs) ==
  LET parsed == analysisResultOf[GeneratedText.empty, requests[i].file.originalname, now]
  IN  /\ analysisCache' = set(analysisCache, requests[i].fileName, parsed)
      /\ requests' = Answered(i, Respond(200,
           [ success |-> TRUE,
             fileName |-> requests[i].fileName,
             analysis |-> parsed,
             note |-> "Using fallback analysis - please ensure Ollama is running with llava model for image analysis" ]))
      /\ observed' = StoreObserved(obs, i, requests[i].fileName, "fallback")

\* the catch block of the upload handler: the fallback analysis is cached
\* and returned with a note
UploadFallback(i, obs) ==
  LET fallbackAnalysis == fallbackAnalysisOf[requests[i].file.originalname, now]
  IN  /\ analysisCache' = set(analysisCache, requests[i].fileName, fallbackAnalysis)
      /\ requests' = Answered(i, Respond(200,
           [ success |-> TRUE,
             fileName |-> requests[i].fileName,
             analysis |-> fallbackAnalysis,
             note |-> "Using fallback analysis - please ensure Ollama is running with llava model for image analysis" ]))
      /\ observed' = StoreObserved(obs, i, requests[i].fileName, "fallback")

\* The request arrives.  Without a file the handler answers 400.  A file the
\* fileFilter refuses never reaches the handler: multer hands the error to
\* Express, which answers 500.  Otherwise multer names the stored file and
\* the handler runs up to its first await, inside checkOllamaStatus.
UploadArrive(i, file, rnd) ==
  /\ MayArrive(i)
  /\ requests' =
       IF ~file.present
         THEN [Answered(i, Respond(400, [error |-> "No file uploaded"]))
                 EXCEPT ![i].kind = "upload"]
       ELSE IF ~fileFilter(file)
         THEN [Answered(i, Respond(500,
                 [html |-> "Invalid file type. Only images are supported."]))
                 EXCEPT ![i].kind = "upload", ![i].file = file]
       ELSE [requests EXCEPT ![i].kind = "upload", ![i].pc = "status", ![i].file = file,
                             ![i].fileName = filenameOf[file, now, rnd]]
  /\ UNCHANGED <<analysisCache, now, observed>>
  /\ UNCHANGED functionVars

\* checkOllamaStatus returns.  When it is false the handler answers 500;
\* otherwise it enters the try block and awaits ollama.list().
UploadStatus(i, listed) ==
  /\ requests[i].kind = "upload"
  /\ requests[i].pc = "status"
  /\ LET ollamaStatus == ollamaStatusOf[listed]
     IN  /\ requests' =
              IF ~ollamaStatus
                THEN Answered(i, Respond(500,
                       [ error |-> "Ollama is not running or no suitable model found",
                         suggestion |-> "Please start Ollama and ensure you have llama3.2 or llava model installed" ]))
              ELSE IF startsWith(requests[i].file.mimetype, MimeType.image)
                THEN [requests EXCEPT ![i].pc = "list"]
              ELSE Answered(i, Respond(400, [error |-> "Only image files are supported"]))
         /\ observed' = ListObserved(i, listed, ~ollamaStatus)
  /\ UNCHANGED <<analysisCache, now>>
  /\ UNCHANGED functionVars

\* ollama.list() inside the try block returns: a vision model is preferred,
\* then a text model; a rejected call or no model at all throws into the
\* catch block.
UploadList(i, listed) ==
  /\ requests[i].kind = "upload"
  /\ requests[i].pc = "list"
  /\ LET vision == IF listed.ok THEN visionModelOf[listed.models] ELSE <<>>
         text   == IF listed.ok THEN textModelOf[listed.models] ELSE <<>>
     IN  IF listed.ok /\ Len(vision) > 0
           THEN /\ requests' = [requests EXCEPT ![i].pc = "generate",
                                                ![i].model = vision, ![i].mode = "vision"]
                /\ observed' = ListObserved(i, listed, FALSE)
                /\ UNCHANGED analysisCache
         ELSE IF listed.ok /\ Len(text) > 0
           THEN /\ requests' = [requests EXCEPT ![i].pc = "generate",
                                                ![i].model = text, ![i].mode = "text"]
                /\ observed' = ListObserved(i, listed, FALSE)
                /\ UNCHANGED analysisCache
         ELSE UploadFallback(i, ListObserved(i, listed, TRUE))
  /\ UNCHANGED now
  /\ UNCHANGED functionVars

\* ollama.generate() returns: its text (with the note appended when a text
\* model was used) is parsed into the record, which is cached and returned;
\* a rejected call throws into the catch block.
UploadGenerate(i, out) ==
  /\ requests[i].kind = "upload"
  /\ requests[i].pc = "generate"
  /\ IF out.ok
       THEN LET analysisText == IF requests[i].mode = "vision"
                                  THEN out.response
                                  ELSE out.response \o noteSuffix
                result == analysisResultOf[analysisText, requests[i].file.originalname, now]
            IN  /\ analysisCache' = set(analysisCache, requests[i].fileName, result)
                /\ requests' = Answered(i, Respond(200,
                     [ success |-> TRUE,
                       fileName |-> requests[i].fileName,
                       analysis |-> result,
                       aiProvider |-> "Local Llama 3.2" ]))
                /\ observed' = StoreObserved(GenerateObserved(observed, i, out), i,
                                             requests[i].fileName, requests[i].mode)
       ELSE UploadFallback(i, GenerateObserved(observed, i, out))
  /\ UNCHANGED now
  /\ UNCHANGED functionVars

(***************************************************************************)
(* POST /api/chat.                                                         *)
(***************************************************************************)
\* A faulty chat handler, which refutes C3: it lets a gateway failure reach
\* the outer catch block
ChatFailure(i, note) ==
  Answered(i, Respond(500, [error |-> "Failed to process question"]))

\* the fallback answer of the chat handler, returned when the status check
\* fails and from the catch block
ChatFallback(i, note) ==
  Answered(i, Respond(200,
    [ success |-> TRUE,
      answer |-> fallbackAnswerOf[requests[i].question, requests[i].analysis[1]],
      note |-> note ]))

\* The request arrives: validation, then the cache lookup, then the handler
\* runs up to its first await, inside checkOllamaStatus.
ChatArrive(i, question, fileName) ==
  /\ MayArrive(i)
  /\ LET analysis == get(analysisCache, fileName)
     IN  requests' =
           IF Len(question) = 0 \/ Len(fileName) = 0
             THEN [Answered(i, Respond(400, [error |-> "Question and fileName are required"]))
                     EXCEPT ![i].kind = "chat", ![i].question = question,
                            ![i].fileName = fileName]
           ELSE IF Len(analysis) = 0
             THEN [Answered(i, Respond(404, [error |-> "Document analysis not found"]))
                     EXCEPT ![i].kind = "chat", ![i].question = question,
                            ![i].fileName = fileName]
           ELSE [requests EXCEPT ![i].kind = "chat", ![i].pc = "status",
                                 ![i].question = question, ![i].fileName = fileName,
                                 ![i].analysis = analysis]
  /\ observed' = [observed EXCEPT
       ![i].keyPresent = has(analysisCache, fileName),
       ![i].afterUpload = \E u \in Requests :
                            /\ requests[u].kind = "upload"
                            /\ requests[u].response.status = 200
                            /\ requests[u].response.body.fileName = fileName]
  /\ UNCHANGED <<analysisCache, now>>
  /\ UNCHANGED functionVars

\* checkOllamaStatus returns.  When it is false the fallback answer is
\* returned; otherwise the handler enters the try block and awaits ollama.list().
ChatStatus(i, listed) ==
  /\ requests[i].kind = "chat"
  /\ requests[i].pc = "status"
  /\ LET ollamaStatus == ollamaStatusOf[listed]
     IN  /\ requests' =
              IF ~ollamaStatus
                THEN ChatFallback(i, "Using fallback response - Ollama not available")
                ELSE [requests EXCEPT ![i].pc = "list"]
         /\ observed' = IF ~ollamaStatus
                          THEN [ListObserved(i, listed, TRUE) EXCEPT ![i].producedBy = "fallback"]
                          ELSE ListObserved(i, listed, FALSE)
  /\ UNCHANGED <<analysisCache, now>>
  /\ UNCHANGED functionVars

\* ollama.list() inside the try block returns: with a text model the prompt
\* is built and ollama.generate() awaited; a rejected call or no text model
\* throws into the catch block.
ChatList(i, listed) ==
  /\ requests[i].kind = "chat"
  /\ requests[i].pc = "list"
  /\ LET model == IF listed.ok THEN textModelOf[listed.models] ELSE <<>>
     IN  IF listed.ok /\ Len(model) > 0
           THEN /\ requests' = [requests EXCEPT ![i].pc = "generate",
                                                ![i].model = model, ![i].mode = "text"]
                /\ observed' = ListObserved(i, listed, FALSE)
           ELSE /\ requests' = ChatFallback(i, "Using fallback response due to local AI limitations")
                /\ observed' = [ListObserved(i, listed, TRUE) EXCEPT ![i].producedBy = "fallback"]
  /\ UNCHANGED <<analysisCache, now>>
  /\ UNCHANGED functionVars

\* A faulty chat handler, which refutes C23: it appends the answer to the
\* cached record
ChatGenerateCaching(i, out) ==
  /\ requests[i].kind = "chat"
  /\ requests[i].pc = "generate"
  /\ requests' =
       IF out.ok
         THEN Answered(i, Respond(200,
                [ success |-> TRUE,
                  answer |-> out.response,
                  aiProvider |-> "Local Llama 3.2" ]))
         ELSE ChatFallback(i, "Using fallback response due to local AI limitations")
  /\ observed' = [GenerateObserved(observed, i, out)
                    EXCEPT ![i].producedBy = IF out.ok THEN "text" ELSE "fallback"]
  /\ analysisCache' =
       IF out.ok
         THEN set(analysisCache, requests[i].fileName,
                  [requests[i].analysis[1] EXCEPT !.extractedText = @ \o out.response])
         ELSE analysisCache
  /\ UNCHANGED now
  /\ UNCHANGED functionVars

\* ollama.generate() returns: its text is the answer; a rejected call throws
\* into the catch block.
ChatGenerate(i, out) ==
  /\ requests[i].kind = "chat"
  /\ requests[i].pc = "generate"
  /\ requests' =
       IF out.ok
         THEN Answered(i, Respond(200,
                [ success |-> TRUE,
                  answer |-> out.response,
                  aiProvider |-> "Local Llama 3.2" ]))
         ELSE ChatFallback(i, "Using fallback response due to local AI limitations")
  /\ observed' = [GenerateObserved(observed, i, out)
                    EXCEPT ![i].producedBy = IF out.ok THEN "text" ELSE "fallback"]
  /\ UNCHANGED <<analysisCache, now>>
  /\ UNCHANGED functionVars

(***************************************************************************)
(* The server.                                                             *)
(***************************************************************************)
Next ==
  \/ Tick
  \/ \E i \in Requests, file \in UploadFiles \cup {NoFile}, rnd \in RandomValues :
       UploadArrive(i, file, rnd)
  \/ \E i \in Requests, listed \in ListOutcomes : UploadStatus(i, listed)
  \/ \E i \in Requests, listed \in ListOutcomes : UploadList(i, listed)
  \/ \E i \in Requests, out \in {GenerateError} \cup {Generated(t) : t \in UploadTexts} :
       UploadGenerate(i, out)
  \/ \E i \in Requests, question \in Questions, fileName \in ChatFileNames :
       ChatArrive(i, question, fileName)
  \/ \E i \in Requests, listed \in ListOutcomes : ChatStatus(i, listed)
  \/ \E i \in Requests, listed \in ListOutcomes : ChatList(i, listed)
  \/ \E i \in Requests, out \in {GenerateError} \cup {Generated(t) : t \in ChatTexts} :
       ChatGenerate(i, out)

Spec == Init /\ [][Next]_vars


(***************************************************************************)
(* The extractors, called on their own.  A text is put together line by    *)
(* line from ExtractLines and then parsed into a record, as the upload     *)
(* handler parses analysisText.                                            *)
(***************************************************************************)
\* number of lines of a text given to the extractors
MaxLines == 2

\* lines a generated text may consist of
ExtractLine ==
  [ label |-> <<"D","o","c","u","m","e","n","t"," ","T","y","p","e",":">>,
    scale |-> <<"S","c","a","l","e",":">>,
    plan |-> <<"F","L","O","O","R"," ","P","L","A","N">>,
    views |-> <<"E","a","s","t"," ","e","l","e","v","a","t","i","o","n"," ","a","n","d"," ",
        "s","e","c","t","i","o","n">>,
    section |-> <<"S","e","c","t","i","o","n"," ","A","-","A">>,
    story |-> <<"T","h","i","s"," ","r","e","s","i","d","e","n","t","i","a","l"," ","3","-",
        "s","t","o","r","y"," ","b","u","i","l","d","i","n","g"," ","u","s","e","s"," ","c",
        "o","n","c","r","e","t","e"," ","a","n","d"," ","s","t","e","e","l",".">>,
    floors |-> <<"2"," ","f","l","o","o","r","s",","," ","C","o","n","c","r","e","t","e"," ",
        "w","a","l","l","s"," ","o","n"," ","a"," ","c","o","n","c","r","e","t","e"," ","f",
        "o","u","n","d","a","t","i","o","n">>,
    phase |-> <<"P","r","o","j","e","c","t",":"," ","R","e","s","i","d","e","n","t","i","a",
        "l"," ","h","o","u","s","e",":"," ","P","h","a","s","e"," ","2">> ]

ExtractLines ==
  { ExtractLine.label, ExtractLine.scale, ExtractLine.plan, ExtractLine.views,
    ExtractLine.section, ExtractLine.story, ExtractLine.floors, ExtractLine.phase }

\* the text the lines make up
rawText == join(extraction.lines, NL)

ExtractAppend(line) ==
  /\ ~extraction.done
  /\ Len(extraction.lines) < MaxLines
  /\ extraction' = [extraction EXCEPT !.lines = Append(@, line)]
  /\ UNCHANGED <<serverVars, answering, selection, endpoints, client>>

\* the text is parsed at the clock value ms
Extract(ms) ==
  /\ ~extraction.done
  /\ extraction' = [extraction EXCEPT
       !.done = TRUE,
       !.result = <<analysisResult(rawText, OriginalName.plan, ms)>>]
  /\ UNCHANGED <<serverVars, answering, selection, endpoints, client>>

ExtractNext ==
  \/ \E line \in ExtractLines : ExtractAppend(line)
  \/ \E ms \in ClockValues : Extract(ms)

\* the server stays as it starts
ExtractSpec == Init /\ [][ExtractNext]_vars

(***************************************************************************)
(* generateFallbackAnswer, called on its own.  A question is put together  *)
(* word by word from AnswerWords and answered from one of AnswerRecords.   *)
(***************************************************************************)
\* number of words of a question given to generateFallbackAnswer
MaxWords == 2

AnswerWords ==
  << <<"H","o","w"," ","m","a","n","y">>,
     <<"F","L","O","O","R","S">>,
     <<"S","t","o","r","y">>,
     <<"l","e","v","e","l">>,
     <<"M","a","t","e","r","i","a","l">>,
     <<"c","o","n","s","t","r","u","c","t","i","o","n">>,
     <<"r","o","o","m","s">>,
     <<"S","p","a","c","e">>,
     <<"l","a","y","o","u","t">>,
     <<"d","r","a","w","i","n","g">>,
     <<"p","l","a","n">> >>

\* records of the three kinds the cache can hold: the fallback analysis, a
\* parsed text with a number of floors, and the parsed empty text
AnswerRecords ==
  { generateFallbackAnalysis(OriginalName.plan, 0),
    analysisResult(ExtractLine.floors, OriginalName.plan, 0),
    analysisResult(GeneratedText.empty, OriginalName.plan, 0) }

\* the question the words make up
askedQuestion == join(answering.words, <<" ">>)

AnswerAppend(word) ==
  /\ Len(answering.record) = 0
  /\ Len(answering.words) < MaxWords
  /\ answering' = [answering EXCEPT !.words = Append(@, word)]
  /\ UNCHANGED <<serverVars, extraction, selection, endpoints, client>>

Answer(record) ==
  /\ Len(answering.record) = 0
  /\ answering' = [answering EXCEPT
       !.record = <<record>>,
       !.answer = <<generateFallbackAnswer(askedQuestion, record)>>]
  /\ UNCHANGED <<serverVars, extraction, selection, endpoints, client>>

AnswerNext ==
  \/ \E k \in 1..Len(AnswerWords) : AnswerAppend(AnswerWords[k])
  \/ \E record \in AnswerRecords : Answer(record)

\* the server stays as it starts
AnswerSpec == Init /\ [][AnswerNext]_vars

(***************************************************************************)
(* checkOllamaStatus and the model selections, called on their own.  A     *)
(* listing is put together name by name from SelectNames; then the status  *)
(* check and the two selections are applied to it.                         *)
(***************************************************************************)
\* number of models of a listing
MaxModels == 3

\* further model names an Ollama installation may report
OtherModelName ==
  [ codellama |-> <<"C","o","d","e","L","l","a","m","a",":","7","b">>,
    vision |-> <<"q","w","e","n","-","v","i","s","i","o","n",":","7","b">> ]

SelectNames ==
  { ModelName.LLaVA, ModelName.gemma3, ModelName.llama32, ModelName.mistral,
    OtherModelName.codellama, OtherModelName.vision }

SelectAppend(name) ==
  /\ ~selection.done
  /\ Len(selection.models) < MaxModels
  /\ selection' = [selection EXCEPT !.models = Append(@, name)]
  /\ UNCHANGED <<serverVars, extraction, answering, endpoints, client>>

Select ==
  /\ ~selection.done
  /\ selection' = [selection EXCEPT
       !.done = TRUE,
       !.usable = checkOllamaStatus(Listing(selection.models)),
       !.vision = visionModel(selection.models),
       !.text = textModel(selection.models)]
  /\ UNCHANGED <<serverVars, extraction, answering, endpoints, client>>

SelectNext ==
  \/ \E name \in SelectNames : SelectAppend(name)
  \/ Select

\* the server stays as it starts
SelectSpec == Init /\ [][SelectNext]_vars


(***************************************************************************)
(* The callback of app.listen, GET /api/health and GET /api/models.  The   *)
(* server starts inside the callback, at its first await; the endpoints    *)
(* are then called one after the other.                                    *)
(***************************************************************************)
\* number of calls of the GET endpoints
MaxCalls == 2

\* checkOllamaStatus returns in the callback: when it is true the callback
\* awaits ollama.list(), otherwise it logs its advice and returns
ListenStatus(listed) ==
  /\ endpoints.pc = "listen"
  /\ endpoints' = [endpoints EXCEPT
       !.pc = IF ollamaStatusOf[listed] THEN "listen-list" ELSE "serving"]
  /\ UNCHANGED <<serverVars, extraction, answering, selection, client>>

\* ollama.list() returns in the callback, which has no try block: a
\* rejected call rejects the promise of the callback, which nothing handles;
\* exits: the runtime ends the process on an unhandled rejection
ListenList(listed, exits) ==
  /\ endpoints.pc = "listen-list"
  /\ endpoints' = [endpoints EXCEPT
       !.pc = IF ~listed.ok /\ exits THEN "exited" ELSE "serving",
       !.rejected = ~listed.ok]
  /\ UNCHANGED <<serverVars, extraction, answering, selection, client>>

\* GET /api/health: checkOllamaStatus returns and the handler answers
Health(listed, ms) ==
  /\ endpoints.pc = "serving"
  /\ Len(endpoints.responses) < MaxCalls
  /\ endpoints' = [endpoints EXCEPT !.responses = Append(@, Respond(200,
       [ status |-> "OK",
         timestamp |-> toISOString(ms),
         aiProvider |-> "Local Llama 3.2",
         ollamaRunning |-> ollamaStatusOf[listed] ]))]
  /\ UNCHANGED <<serverVars, extraction, answering, selection, client>>

\* GET /api/models: checkOllamaStatus returns; when it is false the handler
\* answers with no models, otherwise it awaits ollama.list()
ModelsStatus(listed) ==
  /\ endpoints.pc = "serving"
  /\ Len(endpoints.responses) < MaxCalls
  /\ endpoints' =
       IF ollamaStatusOf[listed]
         THEN [endpoints EXCEPT !.pc = "models-list"]
         ELSE [endpoints EXCEPT !.responses = Append(@, Respond(200,
                [ ollamaRunning |-> FALSE,
                  models |-> <<>>,
                  preferredVisionModel |-> <<>>,
                  preferredTextModel |-> <<>> ]))]
  /\ UNCHANGED <<serverVars, extraction, answering, selection, client>>

\* GET /api/models: ollama.list() returns; a rejected call is caught and
\* answered 500
ModelsList(listed) ==
  /\ endpoints.pc = "models-list"
  /\ endpoints' = [endpoints EXCEPT
       !.pc = "serving",
       !.responses = Append(@,
          IF listed.ok
            THEN Respond(200,
                   [ ollamaRunning |-> TRUE,
                     models |-> listed.models,
                     preferredVisionModel |-> visionModelOf[listed.models],
                     preferredTextModel |-> textModelOf[listed.models] ])
            ELSE Respond(500,
                   [ error |-> "Failed to list models",
                     details |-> "the message of the error" ]))]
  /\ UNCHANGED <<serverVars, extraction, answering, selection, client>>

EndpointsNext ==
  \/ \E listed \in ListOutcomes : ListenStatus(listed)
  \/ \E listed \in ListOutcomes, exits \in BOOLEAN : ListenList(listed, exits)
  \/ \E listed \in ListOutcomes, ms \in ClockValues : Health(listed, ms)
  \/ \E listed \in ListOutcomes : ModelsStatus(listed)
  \/ \E listed \in ListOutcomes : ModelsList(listed)

\* the request handlers stay as they start
EndpointsSpec == Init /\ [][EndpointsNext]_vars

(***************************************************************************)
(* The client: the React component App.  uploadedFile, fileName and        *)
(* analysisResult hold a value in a sequence of length 1, null and the     *)
(* empty string being the empty sequence.  sent is the file of the upload  *)
(* request in flight, asked the chat request in flight, and analysed the   *)
(* file whose upload gave the analysisResult and fileName the state holds. *)
(***************************************************************************)
\* number of questions asked in one chat history
MaxQuestions == 1

\* a file is dropped or chosen; the drop zone is rendered while no file is
\* selected
handleFileUpload(file) ==
  /\ Len(client.uploadedFile) = 0
  /\ client' = [client EXCEPT
       !.uploadedFile = <<file>>,
       !.analysisResult = <<>>,
       !.chatHistory = <<>>,
       !.fileName = <<>>]
  /\ UNCHANGED <<serverVars, extraction, answering, selection, endpoints>>

\* the remove button next to the selected file: setUploadedFile(null)
removeFile ==
  /\ Len(client.uploadedFile) > 0
  /\ client' = [client EXCEPT !.uploadedFile = <<>>]
  /\ UNCHANGED <<serverVars, extraction, answering, selection, endpoints>>

\* the Analyze button, rendered with the selected file and disabled while
\* isAnalyzing: the handler runs up to its await of axios.post
analyzeDocument ==
  /\ Len(client.uploadedFile) > 0
  /\ ~client.isAnalyzing
  /\ client' = [client EXCEPT !.isAnalyzing = TRUE, !.sent = client.uploadedFile]
  /\ UNCHANGED <<serverVars, extraction, answering, selection, endpoints>>

\* axios.post of analyzeDocument returns: the response of the server for the
\* file sent, a success response (ok) with the key and the record of the
\* file, or an error response, which throws into the catch block
analyzeDocumentReturns(ok, ms, rnd) ==
  /\ Len(client.sent) > 0
  /\ ok => client.sent[1] \in AcceptedFiles
  /\ client' =
       IF ok
         THEN [client EXCEPT
                !.analysisResult = <<fallbackAnalysisOf[client.sent[1].originalname, ms]>>,
                !.fileName = filenameOf[client.sent[1], ms, rnd],
                !.analysed = client.sent,
                !.isAnalyzing = FALSE,
                !.sent = <<>>]
         ELSE [client EXCEPT !.isAnalyzing = FALSE, !.sent = <<>>]
  /\ UNCHANGED <<serverVars, extraction, answering, selection, endpoints>>

\* the question is submitted; the chat panel is rendered with an
\* analysisResult, its button is disabled while isAnswering and for a blank
\* question, and the handler returns at once for an empty fileName
handleQuestionSubmit(question) ==
  /\ Len(client.analysisResult) > 0
  /\ ~client.isAnswering
  /\ Len(trim(question)) > 0
  /\ Len(client.fileName) > 0
  /\ Len(client.chatHistory) < 2 * MaxQuestions
  /\ client' = [client EXCEPT
       !.chatHistory = Append(@, [type |-> "user", content |-> question]),
       !.isAnswering = TRUE,
       !.asked = << [ fileName |-> client.fileName,
                      of |-> client.analysed,
                      selected |-> client.uploadedFile ] >>]
  /\ UNCHANGED <<serverVars, extraction, answering, selection, endpoints>>

\* the content of the message of the catch block of handleQuestionSubmit
errorMessage ==
  <<"S","o","r","r","y",","," ","I"," ","e","n","c","o","u","n","t","e","r","e","d"," ","a",
    "n"," ","e","r","r","o","r","."," ","P","l","e","a","s","e"," ","t","r","y"," ","a","g",
    "a","i","n",".">>

\* axios.post of handleQuestionSubmit returns: the answer, or the apology of
\* the catch block, is appended to the chat history of that moment
handleQuestionSubmitReturns(content) ==
  /\ client.isAnswering
  /\ client' = [client EXCEPT
       !.chatHistory = Append(@, [type |-> "ai", content |-> content]),
       !.isAnswering = FALSE,
       !.asked = <<>>]
  /\ UNCHANGED <<serverVars, extraction, answering, selection, endpoints>>

ClientNext ==
  \/ \E file \in UploadFiles : handleFileUpload(file)
  \/ removeFile
  \/ analyzeDocument
  \/ \E ok \in BOOLEAN, ms \in ClockValues, rnd \in RandomValues :
       analyzeDocumentReturns(ok, ms, rnd)
  \/ \E question \in Questions : handleQuestionSubmit(question)
  \/ \E content \in ChatTexts \cup {errorMessage} :
       handleQuestionSubmitReturns(content)

\* the server is seen through its responses only
ClientSpec == Init /\ [][ClientNext]_vars
(***************************************************************************)
(* Vocabulary of the properties.                                           *)
(***************************************************************************)
IsDone(i) == requests[i].pc = "done"

\* request i is an upload of a file that passed the transport's validation
IsImageUpload(i) ==
  /\ requests[i].kind = "upload"
  /\ requests[i].file.present
  /\ fileFilter(requests[i].file)

\* request i is a chat request that passed the validation of its body
IsValidChat(i) ==
  /\ requests[i].kind = "chat"
  /\ Len(requests[i].question) > 0
  /\ Len(requests[i].fileName) > 0

Body(i) == requests[i].response.body

IsSuccess(i) ==
  /\ requests[i].response.status = 200
  /\ "success" \in DOMAIN Body(i)
  /\ Body(i).success = TRUE

\* a gateway failure was met by request i: a listing was rejected or held no
\* usable model, or the generate call threw
GatewayFailed(i) == observed[i].unavailable \/ observed[i].generateThrew

IsFallbackAnalysis(record, originalname) ==
  \E ms \in ClockValues : record = generateFallbackAnalysis(originalname, ms)

AnalysisFields ==
  { "documentType", "projectInfo", "drawings", "generalNotes", "keyFeatures",
    "materialsList", "structuralElements", "extractedText" }

ProjectInfoFields == {"title", "fileName", "uploadDate", "scale", "sheetNumber"}

\* record has every field of an AnalysisResult (foundation is optional)
IsCompleteRecord(record) ==
  /\ DOMAIN record = AnalysisFields
  /\ DOMAIN record.projectInfo = ProjectInfoFields
  /\ {"floors", "type"} \subseteq DOMAIN record.structuralElements
  /\ DOMAIN record.structuralElements \subseteq {"floors", "type", "foundation"}

(***************************************************************************)
(* C1.  Every upload of a valid image file that finds the gateway          *)
(* unavailable (a listing fails, or lists no usable model) is answered     *)
(* with a success response that carries a fallback analysis, never with    *)
(* an error response.                                                      *)
(***************************************************************************)
C1_UploadFallsBackWhenUnavailable ==
  \A i \in Requests :
    (IsImageUpload(i) /\ IsDone(i) /\ observed[i].unavailable)
      => /\ IsSuccess(i)
         /\ "analysis" \in DOMAIN Body(i)
         /\ IsFallbackAnalysis(Body(i).analysis, requests[i].file.originalname)

(***************************************************************************)
(* C2.  When the gateway lists no models during an upload of a valid       *)
(* image, the cache afterwards holds, under the upload's key, a record     *)
(* equal to the fallback analysis of the original file name, and the       *)
(* response carries a note and no aiProvider.                              *)
(***************************************************************************)
C2_EmptyListingStoresFallback ==
  \A i \in Requests :
    (IsImageUpload(i) /\ IsDone(i) /\ observed[i].emptyListing)
      => /\ has(analysisCache, requests[i].fileName)
         /\ IsFallbackAnalysis(analysisCache[requests[i].fileName],
                               requests[i].file.originalname)
         /\ "note" \in DOMAIN Body(i)
         /\ "aiProvider" \notin DOMAIN Body(i)

(***************************************************************************)
(* C3.  Amended: every chat request with a non-empty question whose key    *)
(* is present in the cache is answered with a success response carrying    *)
(* an answer, whatever the gateway does; after any gateway failure the     *)
(* answer is exactly the fallback answer for the question and the record   *)
(* the request found in the cache.                                         *)
(***************************************************************************)
ChatIsAnswered(i) ==
  /\ IsSuccess(i)
  /\ "answer" \in DOMAIN Body(i)
  /\ "error" \notin DOMAIN Body(i)
  /\ GatewayFailed(i) =>
       Body(i).answer = generateFallbackAnswer(requests[i].question, requests[i].analysis[1])

C3_ChatAlwaysAnswers ==
  \A i \in Requests :
    (requests[i].kind = "chat" /\ IsDone(i) /\ observed[i].keyPresent
       /\ Len(requests[i].question) > 0)
      => ChatIsAnswered(i)

\* C3 as stated: the same of every chat request whose key is present
C3_Original ==
  \A i \in Requests :
    (requests[i].kind = "chat" /\ IsDone(i) /\ observed[i].keyPresent)
      => ChatIsAnswered(i)

\* a chat request, its key present, was answered with the fallback answer
\* after the generate call threw
C3_Witness ==
  \E i \in Requests :
    /\ requests[i].kind = "chat" /\ IsDone(i) /\ observed[i].keyPresent
    /\ observed[i].generateThrew
    /\ IsSuccess(i)

(***************************************************************************)
(* C4.  Amended: a chat request with a non-empty question and a non-empty  *)
(* fileName whose key is absent from the cache is answered with the        *)
(* "Document analysis not found" error; no fallback answer is generated    *)
(* and the gateway is neither listed nor asked to generate.                *)
(***************************************************************************)
AnswersNotFound(i) ==
  /\ requests[i].response = Respond(404, [error |-> "Document analysis not found"])
  /\ observed[i].lists = 0
  /\ observed[i].generates = 0
  /\ observed[i].producedBy = "none"

C4_AbsentKeyIsNotFound ==
  \A i \in Requests :
    (IsValidChat(i) /\ IsDone(i) /\ ~observed[i].keyPresent) => AnswersNotFound(i)

\* C4 as stated: the same of every chat request that names a key absent
\* from the cache
C4_Original ==
  \A i \in Requests :
    (requests[i].kind = "chat" /\ IsDone(i) /\ Len(requests[i].fileName) > 0
       /\ ~observed[i].keyPresent)
      => AnswersNotFound(i)

\* a valid chat request for an absent key was answered while the cache held
\* another key
C4_Witness ==
  \E i \in Requests :
    /\ IsValidChat(i) /\ IsDone(i) /\ ~observed[i].keyPresent
    /\ requests[i].response.status = 404
    /\ DOMAIN analysisCache # {}

(***************************************************************************)
(* C5.  Every success response of upload and chat carries exactly one of   *)
(* aiProvider and note, note exactly when the result came from the         *)
(* fallback generator and aiProvider exactly when it came from a generate  *)
(* call; and neither operation, on a request that passed validation and    *)
(* (for chat) found its key, is answered with an internal error.           *)
(***************************************************************************)
IsLabelled(i) ==
  /\ ("note" \in DOMAIN Body(i)) # ("aiProvider" \in DOMAIN Body(i))
  /\ ("note" \in DOMAIN Body(i)) <=> (observed[i].producedBy = "fallback")
  /\ ("aiProvider" \in DOMAIN Body(i)) <=> (observed[i].producedBy \in {"vision", "text"})

C5_LabelledAndNoInternalError ==
  \A i \in Requests :
    IsDone(i) =>
      /\ IsSuccess(i) => IsLabelled(i)
      /\ (IsImageUpload(i) \/ (IsValidChat(i) /\ observed[i].keyPresent))
           => requests[i].response.status # 500

(***************************************************************************)
(* C6.  Store round trip: right after a put under key k the cache returns  *)
(* for k the record that was put; a chat request for the key of a success  *)
(* response of an upload is never answered not-found; a key no upload has  *)
(* written is absent.                                                      *)
(***************************************************************************)
\* request i performs analysisCache.set in this step
Puts(i) == ~observed[i].stored /\ observed'[i].stored

WrittenKeys == {requests[i].fileName : i \in {j \in Requests : observed[j].stored}}

C6_PutThenGet ==
  \A i \in Requests :
    Puts(i) => get(analysisCache', requests[i].fileName)
                 = <<requests'[i].response.body.analysis>>

C6_StoreRoundTrip ==
  /\ [][C6_PutThenGet]_vars
  /\ [](\A i \in Requests :
          (requests[i].kind = "chat" /\ IsDone(i) /\ observed[i].afterUpload)
            => requests[i].response.status # 404)
  /\ [](\A k \in PossibleKeys : k \notin WrittenKeys => get(analysisCache, k) = <<>>)

\* a chat request that arrived after the success response of an upload for
\* its key was answered, and some possible key was never written
C6_Witness ==
  /\ \E i \in Requests :
       requests[i].kind = "chat" /\ IsDone(i) /\ observed[i].afterUpload
  /\ \E k \in PossibleKeys : k \notin WrittenKeys

(***************************************************************************)
(* C7.  Every cache entry is written exactly once: no two uploads are      *)
(* given the same key, and no put overwrites an entry.                     *)
(***************************************************************************)
HasKey(i) == IsImageUpload(i)

C7_KeysAreUnique ==
  /\ \A i, j \in Requests :
       (i # j /\ HasKey(i) /\ HasKey(j)) => requests[i].fileName # requests[j].fileName
  /\ \A i \in Requests : ~observed[i].overwrote

(***************************************************************************)
(* C8.  A key present in the cache stays present in every later state:     *)
(* no step of any request removes or clears an entry.                      *)
(***************************************************************************)
C8_NeverRegresses ==
  [][\A k \in DOMAIN analysisCache : k \in DOMAIN analysisCache']_vars

\* the key an upload wrote is still present after a later chat request for
\* it was answered
C8_Witness ==
  \E u, c \in Requests :
    /\ observed[u].stored
    /\ requests[c].kind = "chat" /\ IsDone(c)
    /\ requests[c].fileName = requests[u].fileName
    /\ observed[c].keyPresent
    /\ has(analysisCache, requests[u].fileName)

(***************************************************************************)
(* C9.  No retry: a request calls ollama.generate at most once and never   *)
(* after a gateway failure; after a gateway failure the request is         *)
(* answered with the fallback result.                                      *)
(***************************************************************************)
C9_NoRetryThenFallback ==
  \A i \in Requests :
    /\ observed[i].generates <= 1
    /\ ~observed[i].generatedAfterFailure
    /\ (IsDone(i) /\ GatewayFailed(i)) => observed[i].producedBy = "fallback"

(***************************************************************************)
(* C10.  Under every interleaving of upload and chat requests a cache      *)
(* lookup finds no entry or a complete record, and a put under one key     *)
(* leaves the entries of all other keys as they were.                      *)
(***************************************************************************)
PutKeys == {requests[i].fileName : i \in {j \in Requests : Puts(j)}}

C10_AtomicInsertion ==
  /\ [](\A k \in DOMAIN analysisCache : IsCompleteRecord(analysisCache[k]))
  /\ [](\A i \in Requests :
          Len(requests[i].analysis) > 0 => IsCompleteRecord(requests[i].analysis[1]))
  /\ [][\A k \in DOMAIN analysisCache :
          k \notin PutKeys => /\ k \in DOMAIN analysisCache'
                              /\ analysisCache'[k] = analysisCache[k]]_vars

\* two uploads have put different records under different keys, and the
\* cache holds both
C10_Witness ==
  \E i, j \in Requests :
    /\ observed[i].stored /\ observed[j].stored
    /\ requests[i].fileName # requests[j].fileName
    /\ has(analysisCache, requests[i].fileName)
    /\ has(analysisCache, requests[j].fileName)
    /\ analysisCache[requests[i].fileName] # analysisCache[requests[j].fileName]

(***************************************************************************)
(* C11.  Every list of an extracted record has at least one element, and   *)
(* every string of it (documentType, title, scale, sheetNumber, the type   *)
(* of structuralElements, extractedText and each element of a list) is     *)
(* non-blank, for every text, the empty text and a text with a bare        *)
(* "Scale:" included.                                                      *)
(***************************************************************************)
IsBlank(s) == Len(trim(s)) = 0

IsFilledList(list) == Len(list) >= 1 /\ \A k \in 1..Len(list) : ~IsBlank(list[k])

BlankFields(record) ==
  {f \in {"documentType", "extractedText"} : IsBlank(record[f])}
    \cup {f \in {"title", "scale", "sheetNumber"} : IsBlank(record.projectInfo[f])}
    \cup {f \in {"type"} : IsBlank(record.structuralElements[f])}
    \cup {f \in {"drawings", "generalNotes", "keyFeatures", "materialsList"} :
            ~IsFilledList(record[f])}

C11_ExtractedFieldsNonEmpty ==
  extraction.done => BlankFields(extraction.result[1]) = {}

(***************************************************************************)
(* C12.  Amended: two extractions of the same text and original file name  *)
(* give records equal in every field but projectInfo.uploadDate, which is  *)
(* the reading of the clock at the extraction; the record depends on       *)
(* nothing else.                                                           *)
(***************************************************************************)
\* upload i stored the record parsed from a generated text
Extracted(i) ==
  /\ IsImageUpload(i)
  /\ observed[i].stored
  /\ observed[i].producedBy \in {"vision", "text"}

\* the text upload i parsed
ParsedText(i) ==
  IF observed[i].producedBy = "vision"
    THEN observed[i].generated[1]
    ELSE observed[i].generated[1] \o noteSuffix

SameInput(i, j) ==
  /\ Extracted(i) /\ Extracted(j)
  /\ ParsedText(i) = ParsedText(j)
  /\ requests[i].file.originalname = requests[j].file.originalname

WithoutDate(record) == [record EXCEPT !.projectInfo.uploadDate = <<>>]

C12_DeterministicButForDate ==
  /\ \A i, j \in Requests :
       SameInput(i, j) => WithoutDate(Body(i).analysis) = WithoutDate(Body(j).analysis)
  /\ \A i \in Requests :
       Extracted(i) =>
         \E ms \in ClockValues :
           Body(i).analysis = analysisResultOf[ParsedText(i), requests[i].file.originalname, ms]

\* C12 as stated: the two records are identical in every field
C12_Original ==
  \A i, j \in Requests : SameInput(i, j) => Body(i).analysis = Body(j).analysis

\* two uploads parsed the same text at different readings of the clock
C12_Witness ==
  \E i, j \in Requests :
    /\ i # j
    /\ SameInput(i, j)
    /\ Body(i).analysis.projectInfo.uploadDate # Body(j).analysis.projectInfo.uploadDate

(***************************************************************************)
(* C13.  extractStructuralElements returns the integer that precedes       *)
(* "floor", "story", "level" or "storey", the hyphenated "3-story"         *)
(* included: the text "This residential 3-story building ..." gives        *)
(* floors 3, type "Residential structure" and no foundation; foundation    *)
(* is present exactly when the text contains "foundation".                 *)
(***************************************************************************)
Structure == extraction.result[1].structuralElements

C13_FloorsBeforeStory ==
  extraction.done =>
    /\ ("foundation" \in DOMAIN Structure)
         <=> includes(toLowerCase(rawText), StructureText.foundation)
    /\ rawText = ExtractLine.story =>
         /\ Structure.floors = NumberValue(3)
         /\ Structure.type = StructureText.Residential_structure
         /\ "foundation" \notin DOMAIN Structure

(***************************************************************************)
(* C14.  extractMaterials gives the same list when run again; a keyword of *)
(* the vocabulary appears in the list at most once, however often it       *)
(* occurs in the text; every entry is a keyword that occurs, its first     *)
(* letter in upper case; the list is the single placeholder exactly when   *)
(* no keyword occurs.                                                      *)
(***************************************************************************)
Materials == extraction.result[1].materialsList

\* the keywords of the vocabulary that occur in the text
Occurring ==
  {k \in 1..Len(commonMaterials) : includes(toLowerCase(rawText), commonMaterials[k])}

Capital(word) == <<toUpperChar(word[1])>> \o Tail(word)

C14_MaterialsOnceEach ==
  extraction.done =>
    /\ extractMaterials(rawText) = Materials
    /\ \A a, b \in 1..Len(Materials) : a # b => Materials[a] # Materials[b]
    /\ (Materials = <<materialsPlaceholder>>) <=> (Occurring = {})
    /\ Occurring # {} =>
         /\ Len(Materials) = Cardinality(Occurring)
         /\ \A j \in 1..Len(Materials) :
              \E k \in Occurring : Materials[j] = Capital(commonMaterials[k])

\* a text in which a material occurs more than once, in two letter cases, was
\* parsed into a list of two materials
C14_Witness ==
  /\ extraction.done
  /\ rawText = ExtractLine.floors \o NL \o ExtractLine.story
  /\ Len(Materials) = 2

(***************************************************************************)
(* C15.  On a text without a document-type label extractDocumentType       *)
(* classifies by keyword, "floor plan" before "elevation" before           *)
(* "section", in any letter case: a text containing "floor plan" gives     *)
(* "Floor Plan" even when it also contains "elevation" or "section", and   *)
(* a text with none of the keywords gives "Architectural Drawing".         *)
(***************************************************************************)
Mentions(word) == includes(toLowerCase(rawText), word)

HasLabel == Mentions(DocumentTypeText.label1) \/ Mentions(DocumentTypeText.label2)

DocumentType == extraction.result[1].documentType

C15_KeywordPriority ==
  (extraction.done /\ ~HasLabel) =>
    /\ Mentions(DocumentTypeText.floor_plan) => DocumentType = DocumentTypeText.Floor_Plan
    /\ (~Mentions(DocumentTypeText.floor_plan) /\ Mentions(DocumentTypeText.elevation))
         => DocumentType = DocumentTypeText.Building_Elevation
    /\ (~Mentions(DocumentTypeText.floor_plan) /\ ~Mentions(DocumentTypeText.elevation)
          /\ Mentions(DocumentTypeText.section))
         => DocumentType = DocumentTypeText.Building_Section
    /\ (~Mentions(DocumentTypeText.floor_plan) /\ ~Mentions(DocumentTypeText.elevation)
          /\ ~Mentions(DocumentTypeText.section))
         => DocumentType = DocumentTypeText.dflt

\* a text that names an elevation and a section before "FLOOR PLAN" was
\* classified a floor plan
C15_Witness ==
  /\ extraction.done
  /\ rawText = ExtractLine.views \o NL \o ExtractLine.plan
  /\ DocumentType = DocumentTypeText.Floor_Plan

(***************************************************************************)
(* C16.  For every record and every question that contains "floor",        *)
(* "story" or "level" in any letter case, the fallback answer contains     *)
(* the floors value and the type of the record's structuralElements.       *)
(***************************************************************************)
IsAnswered == Len(answering.answer) > 0

Asks(word) == includes(toLowerCase(askedQuestion), word)

AsksFloors ==
  Asks(QuestionWord.floor) \/ Asks(QuestionWord.story) \/ Asks(QuestionWord.level)

C16_FloorsAnswerNamesFloorsAndType ==
  (IsAnswered /\ AsksFloors) =>
    /\ includes(answering.answer[1],
                templateString(answering.record[1].structuralElements.floors))
    /\ includes(answering.answer[1], answering.record[1].structuralElements.type)

\* "How many FLOORS" was answered from a record with a number of floors
C16_Witness ==
  /\ IsAnswered
  /\ askedQuestion = AnswerWords[1] \o <<" ">> \o AnswerWords[2]
  /\ answering.record[1].structuralElements.floors = NumberValue(2)

(***************************************************************************)
(* C17.  Amended: with the gateway unusable, a chat question that          *)
(* contains "material" and none of "floor", "story" and "level" gets, for  *)
(* a cached record, a fallback answer that contains every entry of the     *)
(* record's materialsList, and the response carries a note.                *)
(***************************************************************************)
\* for each question of the model, whether it contains "material", and
\* whether it contains one of the words of the floors template
asksMaterialOf ==
  [q \in Questions |-> includes(toLowerCase(q), QuestionWord.material)]

asksFloorsOf ==
  [q \in Questions |->
     \/ includes(toLowerCase(q), QuestionWord.floor)
     \/ includes(toLowerCase(q), QuestionWord.story)
     \/ includes(toLowerCase(q), QuestionWord.level)]

\* for each question and record, whether the fallback answer contains every
\* entry of the record's materialsList
namesMaterialsOf ==
  [q \in Questions \ {<<>>}, r \in Records |->
     \A k \in 1..Len(r.materialsList) :
       includes(generateFallbackAnswer(q, r), r.materialsList[k])]

\* chat request i found its record and then the gateway unusable
AnsweredUnusable(i) ==
  /\ requests[i].kind = "chat" /\ IsDone(i)
  /\ observed[i].keyPresent
  /\ observed[i].unavailable

NamesMaterialsWithNote(i) ==
  /\ IsSuccess(i)
  /\ "note" \in DOMAIN Body(i)
  /\ Body(i).answer = fallbackAnswerOf[requests[i].question, requests[i].analysis[1]]
  /\ namesMaterialsOf[requests[i].question, requests[i].analysis[1]]

C17_MaterialsAnswerNamesAll ==
  \A i \in Requests :
    (AnsweredUnusable(i) /\ asksMaterialOf[requests[i].question]
       /\ ~asksFloorsOf[requests[i].question])
      => NamesMaterialsWithNote(i)

\* C17 as stated: the same of every question that contains "material"
C17_Original ==
  \A i \in Requests :
    (AnsweredUnusable(i) /\ asksMaterialOf[requests[i].question])
      => NamesMaterialsWithNote(i)

\* "Which materials are used?" was answered, with the gateway unusable, from
\* a record that lists several materials
C17_Witness ==
  \E i \in Requests :
    /\ AnsweredUnusable(i)
    /\ requests[i].question = QuestionText.materials
    /\ Len(requests[i].analysis[1].materialsList) >= 2
    /\ IsSuccess(i)

(***************************************************************************)
(* C18.  generateFallbackAnswer uses exactly one of its five templates,    *)
(* the first in the order floor/story/level, material/construction,        *)
(* room/space/layout, drawing/plan whose words the question contains, and  *)
(* the default summary when it contains none; for every record the cache   *)
(* can hold it returns a string.                                           *)
(***************************************************************************)
\* the opening words of the five templates
TemplateOpenings ==
  { AnswerText.floors1, AnswerText.materials1, AnswerText.rooms1,
    AnswerText.drawings1, AnswerText.default1 }

\* the opening of the template the order of the claim selects
RoutedOpening ==
  IF AsksFloors THEN AnswerText.floors1
  ELSE IF Asks(QuestionWord.material) \/ Asks(QuestionWord.construction)
    THEN AnswerText.materials1
  ELSE IF Asks(QuestionWord.room) \/ Asks(QuestionWord.space) \/ Asks(QuestionWord.layout)
    THEN AnswerText.rooms1
  ELSE IF Asks(QuestionWord.drawing) \/ Asks(QuestionWord.plan)
    THEN AnswerText.drawings1
  ELSE AnswerText.default1

C18_FirstTemplateWins ==
  IsAnswered =>
    /\ Len(answering.answer[1]) > 0
    /\ {o \in TemplateOpenings : startsWith(answering.answer[1], o)} = {RoutedOpening}

\* "Material FLOORS", which has words of two templates, got the floors
\* template, and so did not get the materials template
C18_Witness ==
  /\ IsAnswered
  /\ askedQuestion = AnswerWords[5] \o <<" ">> \o AnswerWords[2]
  /\ startsWith(answering.answer[1], AnswerText.floors1)

(***************************************************************************)
(* C19.  checkOllamaStatus is true exactly when the vision selection or    *)
(* the text selection over the same list returns a model.                  *)
(***************************************************************************)
C19_UsableIffSelectable ==
  selection.done =>
    (selection.usable <=> (Len(selection.vision) > 0 \/ Len(selection.text) > 0))

(***************************************************************************)
(* C20.  Amended: the text selection returns the first model, in the       *)
(* order of the listing, whose name contains "gemma3", "llama3.2" or       *)
(* "llama" in any letter case, whichever of the three it is; it returns    *)
(* none exactly when no name of the listing contains one of them.          *)
(***************************************************************************)
HasTextToken(name) ==
  \/ includes(toLowerCase(name), Family.gemma3)
  \/ includes(toLowerCase(name), Family.llama32)
  \/ includes(toLowerCase(name), Family.llama)

\* the rank of the most preferred text family the name belongs to
FamilyRank(name) ==
  IF includes(toLowerCase(name), Family.gemma3) THEN 1
  ELSE IF includes(toLowerCase(name), Family.llama32) THEN 2
  ELSE IF includes(toLowerCase(name), Family.llama) THEN 3
  ELSE 4

TextPositions == {k \in 1..Len(selection.models) : HasTextToken(selection.models[k])}

C20_FirstListedTextModel ==
  selection.done =>
    /\ (Len(selection.text) = 0) <=> (TextPositions = {})
    /\ TextPositions # {} =>
         \E k \in TextPositions :
           /\ selection.text = <<selection.models[k]>>
           /\ \A j \in TextPositions : k <= j

\* C20 as stated: the selected model is of the most preferred family the
\* listing has, gemma3 before llama3.2 before llama
C20_Original ==
  selection.done =>
    /\ (Len(selection.text) = 0) <=> (TextPositions = {})
    /\ TextPositions # {} =>
         \A k \in TextPositions :
           FamilyRank(selection.text[1]) <= FamilyRank(selection.models[k])

\* from a listing of llama3.2 before gemma3 the llama3.2 model was selected
C20_Witness ==
  /\ selection.done
  /\ selection.models = <<ModelName.llama32, ModelName.gemma3>>
  /\ selection.text = <<ModelName.llama32>>


(***************************************************************************)
(* C21.  The extractedText of every cached record is the text it was       *)
(* parsed from: the text ollama.generate returned for a record of the      *)
(* vision model, that text followed by the note of the upload handler for  *)
(* a record of a text model, and the text of generateFallbackAnalysis for  *)
(* a fallback record.                                                      *)
(***************************************************************************)
\* upload i put the record the cache holds under key
Producer(key, i) ==
  /\ IsImageUpload(i)
  /\ observed[i].stored
  /\ requests[i].fileName = key
  /\ analysisCache[key] = Body(i).analysis

ProducedOnPath(i) ==
  LET name == requests[i].file.originalname
  IN  /\ IsImageUpload(i)
      /\ observed[i].producedBy \in {"vision", "text", "fallback"}
      /\ observed[i].producedBy \in {"vision", "text"} =>
           /\ observed[i].generates = 1
           /\ ~GatewayFailed(i)
           /\ \E ms \in ClockValues :
                Body(i).analysis = analysisResultOf[ParsedText(i), name, ms]
      /\ observed[i].producedBy = "fallback" =>
           /\ GatewayFailed(i)
           /\ \E ms \in ClockValues : Body(i).analysis = fallbackAnalysisOf[name, ms]

ChatSteps(i) == requests'[i] # requests[i] /\ requests'[i].kind = "chat"

C23_ChatReadsOnly ==
  [][(\E i \in Requests : ChatSteps(i)) => analysisCache' = analysisCache]_vars

\* a chat request was answered by the model for a key whose record is
\* still the one its upload put
C23_Witness ==
  \E u, c \in Requests :
    /\ requests[c].kind = "chat" /\ IsDone(c)
    /\ requests[c].response.status = 200
    /\ "aiProvider" \in DOMAIN Body(c)
    /\ has(analysisCache, requests[c].fileName)
    /\ Producer(requests[c].fileName, u)

(***************************************************************************)
(* C24.  The type of extractStructuralElements is that of the first of     *)
(* "residential", "commercial", "office", "house" the text contains: a     *)
(* text with "residential" and "house" gives "Residential structure"; a    *)
(* text with none of them gives "Building structure".                      *)
(***************************************************************************)
FirstTypeInOrder ==
  IF Mentions(StructureText.residential) THEN StructureText.Residential_structure
  ELSE IF Mentions(StructureText.commercial) THEN StructureText.Commercial_structure
  ELSE IF Mentions(StructureText.office) THEN StructureText.Office_building
  ELSE IF Mentions(StructureText.house) THEN StructureText.House
  ELSE StructureText.Building_structure

C24_FirstTypeWins ==
  extraction.done => Structure.type = FirstTypeInOrder

(***************************************************************************)
(* C25.  extractDocumentType returns the value after the colon of the      *)
(* first line with a "document type" or "type of drawing" label that has   *)
(* such a value; without a label value it returns the category of the      *)
(* first of "floor plan", "elevation", "section" the text contains, and    *)
(* "Architectural Drawing" only when there is none of them either.         *)
(***************************************************************************)
\* what follows the first colon of line, later colons included, trimmed
AfterFirstColon(line) == trim(join(Tail(split(line, Colon)), <<Colon>>))

\* the lines of the text, out of candidates, that carry a value after a colon
ValueLines(candidates) ==
  {k \in candidates : Len(AfterFirstColon(extraction.lines[k])) > 0}

LabelLines ==
  {k \in 1..Len(extraction.lines) : isDocumentTypeLine(toLowerCase(extraction.lines[k]))}

CategoryInOrder ==
  IF Mentions(DocumentTypeText.floor_plan) THEN DocumentTypeText.Floor_Plan
  ELSE IF Mentions(DocumentTypeText.elevation) THEN DocumentTypeText.Building_Elevation
  ELSE IF Mentions(DocumentTypeText.section) THEN DocumentTypeText.Building_Section
  ELSE DocumentTypeText.dflt

C25_LabelThenKeywords ==
  extraction.done =>
    IF ValueLines(LabelLines) # {}
      THEN toLowerCase(DocumentType)
             = toLowerCase(AfterFirstColon(extraction.lines[Min(ValueLines(LabelLines))]))
      ELSE DocumentType = CategoryInOrder

(***************************************************************************)
(* C26.  extractProjectTitle returns all that follows the first colon of   *)
(* a line containing "project" or "title", later colons included, trimmed; *)
(* it returns "Architectural Project" only when no such line has a value   *)
(* after a colon.                                                          *)
(***************************************************************************)
TitleLines ==
  {k \in 1..Len(extraction.lines) : isProjectTitleLine(extraction.lines[k])}

ProjectTitle == extraction.result[1].projectInfo.title

C26_WholeValueAfterFirstColon ==
  extraction.done =>
    IF ValueLines(TitleLines) # {}
      THEN ProjectTitle = AfterFirstColon(extraction.lines[Min(ValueLines(TitleLines))])
      ELSE ProjectTitle = ProjectText.dflt

(***************************************************************************)
(* C27.  A rejected ollama.list() is taken as "no models" wherever it      *)
(* happens, also after checkOllamaStatus succeeded in the same handler:    *)
(* GET /api/health and GET /api/models never answer with an error          *)
(* response, and the callback of app.listen never fails.                   *)
(***************************************************************************)
C27_ListingFailsSoft ==
  /\ \A k \in 1..Len(endpoints.responses) : endpoints.responses[k].status = 200
  /\ ~endpoints.rejected
  /\ endpoints.pc # "exited"

(***************************************************************************)
(* C28.  For every upload answered with success, the cache holds under     *)
(* the fileName of the response a record equal to the analysis of the      *)
(* response, from the response on: a later chat request for that fileName  *)
(* finds that record.                                                      *)
(***************************************************************************)
C28_ResponseAndStoreAgree ==
  \A i \in Requests :
    (requests[i].kind = "upload" /\ IsDone(i) /\ IsSuccess(i)) =>
      get(analysisCache, Body(i).fileName) = <<Body(i).analysis>>

(***************************************************************************)
(* C29.  An upload answered with an error response leaves the cache as it  *)
(* was; the cache changes only in the step in which an upload is answered  *)
(* with success, and that step adds exactly one entry.                     *)
(***************************************************************************)
\* upload i is answered in this step
UploadAnswers(i) ==
  /\ requests'[i].kind = "upload"
  /\ requests[i].pc # "done"
  /\ requests'[i].pc = "done"

C29_OnlySuccessAddsOne ==
  [][/\ \A i \in Requests :
          UploadAnswers(i) =>
            IF requests'[i].response.status = 200
              THEN Cardinality(DOMAIN analysisCache') = Cardinality(DOMAIN analysisCache) + 1
              ELSE analysisCache' = analysisCache
     /\ analysisCache' # analysisCache =>
          \E i \in Requests : UploadAnswers(i) /\ requests'[i].response.status = 200]_vars

(***************************************************************************)
(* C30.  In every state of the client an analysisResult that is not null   *)
(* and a fileName that is not empty are those of the file selected as      *)
(* uploadedFile, also when a file is chosen or removed while a request is  *)
(* in flight; no chat question is sent for the analysis of another or of   *)
(* a removed file.                                                         *)
(***************************************************************************)
C30_ClientConsistent ==
  /\ Len(client.analysisResult) > 0 =>
       /\ Len(client.uploadedFile) > 0
       /\ client.analysisResult[1].projectInfo.fileName = client.uploadedFile[1].originalname
  /\ Len(client.fileName) > 0 => client.analysed = client.uploadedFile
  /\ Len(client.asked) > 0 => client.asked[1].of = client.asked[1].selected
====
